---- MODULE Spec2Model ----
(***************************************************************************)
(* Model of gdb/solib-rocm.c: the per-inferior list of ROCm code objects   *)
(* (the registry), its merge with the SVR4 host list, the event handlers   *)
(* that rebuild it, and the parser of code object URIs.                    *)
(*                                                                         *)
(* Memory is modelled as a heap of cells addressed by small integers, so   *)
(* that sharing between the registry's so_list nodes and the nodes handed   *)
(* to the caller of current_sos is something the model can exhibit.        *)
(***************************************************************************)
EXTENDS Integers, Sequences, FiniteSets, TLC

VARIABLES
  alive,              \* the inferiors that exist
  current_inferior,   \* current_inferior ()
  process_id,         \* [inferior -> BOOLEAN]: amd-dbgapi process id # NONE
  heap,               \* [Addr -> cell]: so_list and lm_info_svr4 objects
  info,               \* [inferior -> NoInfo | head of solib_info.solib_list]
  rocm_ops_installed, \* rocm_solib_ops.current_sos # NULL
  held,               \* the list the caller of current_sos holds (NoList: none)
  ev,                 \* the last operation: its name, inputs and call log
  descriptor,         \* what the URI was written from
  uri,                \* the URI handed to rocm_bfd_iovec_open
  parsed,             \* what rocm_bfd_iovec_open made of it
  target,             \* the inferior the URI is opened for: pid and memory
  stream,             \* the rocm_code_object_stream the bfd holds
  io,                 \* the last operation on the bfd and what it did
  loaded              \* the handles of the code objects the runtime knows

vars == <<alive, current_inferior, process_id, heap, info, rocm_ops_installed,
          held, ev, descriptor, uri, parsed, target, stream, io, loaded>>

parsevars == <<descriptor, uri, parsed, target, stream, io>>

-----------------------------------------------------------------------------
(* Bounds of the model.                                                    *)

\* Code objects the runtime can report in one query.
MaxObjs == 2

Inferiors == {1, 2}

\* Code object handles the runtime hands out.
Handles == {1, 2}

HostNames == {"libA.so", "libB.so"}

\* sizeof (so->so_name), SO_NAME_MAX_PATH_SIZE.
SO_NAME_MAX_PATH_SIZE == 512

\* Each entry takes a so_list cell and an lm_info cell. At most two lists of
\* code objects exist at a time (two registries, or a registry and the copy
\* of it in a merged list), and one list of host modules.
HeapSize == 2 * (2 * MaxObjs + Cardinality(HostNames))

Addr == 1 .. HeapSize

NoInfo == -1
NoList == -1

-----------------------------------------------------------------------------
(* The runtime (amd-dbgapi): what a code object handle stands for.         *)

\* AMD_DBGAPI_CODE_OBJECT_INFO_URI_NAME of a handle: handles 1 and 2 are the
\* same file loaded twice, at two addresses.
UriOf(h) ==
  IF h <= 2 THEN [text |-> "file:///a.so#offset=0&size=8", len |-> 28]
  ELSE [text |-> "file:///long.so", len |-> 600 + h]

\* AMD_DBGAPI_CODE_OBJECT_INFO_LOAD_ADDRESS of a handle.
LoadAddrOf(h) == 4096 * h

\* The answers of one amd_dbgapi_process_code_object_list call and of the
\* get_info calls that follow it.
RECURSIVE SeqsUpTo(_, _)
SeqsUpTo(S, n) ==
  IF n = 0 THEN {<<>>}
  ELSE LET shorter == SeqsUpTo(S, n - 1)
       IN  shorter \cup {Append(s, x) : s \in shorter, x \in S}

Distinct(s) == \A i, j \in 1 .. Len(s) : i # j => s[i] # s[j]

\* info: which of the two amd_dbgapi_code_object_get_info calls fails, if any.
CodeObjectAnswers ==
  [handle : Handles, info : {"ok", "no_load_address", "no_uri_name"}]

\* What amd_dbgapi_process_code_object_list and the get_info calls can
\* answer when the runtime knows the code objects hs.
ReportsOf(hs) ==
  { [status |-> "fail", list |-> <<>>] } \cup
  { [status |-> "ok", list |-> l] :
      l \in { s \in SeqsUpTo([handle : hs,
                              info : {"ok", "no_load_address",
                                      "no_uri_name"}], MaxObjs) :
                Distinct([i \in 1 .. Len(s) |-> s[i].handle]) } }

Reports == ReportsOf(Handles)

\* The host lists svr4_so_ops.current_sos can return.
HostLists == { <<>>, <<"libB.so">>, <<"libB.so", "libA.so">> }

-----------------------------------------------------------------------------
(* The heap.                                                               *)

NoName == [text |-> "", len |-> 0]

FreeCell == [t |-> "free", so_name |-> NoName, so_original_name |-> "",
             lm_info |-> 0, next |-> 0, l_addr |-> 0]

SoCell(name, orig, li) ==
  [t |-> "so", so_name |-> name, so_original_name |-> orig,
   lm_info |-> li, next |-> 0, l_addr |-> 0]

LiCell(a) == [FreeCell EXCEPT !.t = "li", !.l_addr = a]

\* XNEW / XCNEW / new: the lowest free address.
Alloc(h) == CHOOSE a \in Addr : h[a].t = "free" /\ \A b \in Addr : b < a => h[b].t # "free"

\* The so_list nodes from p on, in list order.
RECURSIVE ListAddrs(_, _, _)
ListAddrs(h, p, fuel) ==
  IF p = 0 \/ fuel = 0 THEN <<>>
  ELSE <<p>> \o ListAddrs(h, h[p].next, fuel - 1)

Nodes(h, p) == ListAddrs(h, p, HeapSize)

\* What a reader of node p sees: name, unique name and load address. A freed
\* node or a freed lm_info reads as a free cell.
EntryVal(h, p) ==
  [so_name |-> h[p].so_name, so_original_name |-> h[p].so_original_name,
   l_addr |-> IF h[p].lm_info = 0 THEN -1 ELSE h[h[p].lm_info].l_addr,
   live |-> h[p].t = "so" /\ h[p].lm_info # 0 /\ h[h[p].lm_info].t = "li"]

ListVals(h, p) == [i \in 1 .. Len(Nodes(h, p)) |-> EntryVal(h, Nodes(h, p)[i])]

\* free_so (solib.c): the target's free_so releases lm_info, then the node.
free_so(h, p) ==
  IF h[p].t # "so" THEN h
  ELSE [a \in Addr |-> IF a = p \/ a = h[p].lm_info THEN FreeCell ELSE h[a]]

-----------------------------------------------------------------------------
(* The program state the handlers work on, as one record:                  *)
(*   heap, info, ops (rocm_solib_ops installed), leaked (so_list nodes     *)
(*   left allocated that nothing points to), thrown (an exception is       *)
(*   propagating), and log, the calls to other subsystems and the registry *)
(*   operations of the handler that is running, in the order made.         *)

Logged(s, what) == [s EXCEPT !.log = Append(@, what)]

\* get_solib_info: rocm_solib_data.get (inf), emplace when there is none.
get_solib_info(s, inf) ==
  IF s.info[inf] = NoInfo THEN [s EXCEPT !.info[inf] = 0] ELSE s

RECURSIVE FreeFrom(_, _)
FreeFrom(h, p) ==
  IF p = 0 THEN h ELSE FreeFrom(free_so(h, p), h[p].next)

\* A plausible slip: the list is not released and the head is kept.
rocm_free_solib_list_noop(s, inf) == Logged(s, "free_list")

\* rocm_free_solib_list (info): free_so every node, head = nullptr.
rocm_free_solib_list(s, inf) ==
  Logged([s EXCEPT !.heap = FreeFrom(s.heap, s.info[inf]), !.info[inf] = 0],
         "free_list")

\* A plausible slip: memcpy alone, the lm_info pointer shared with the source.
RECURSIVE CopyShallow(_, _, _)
CopyShallow(h, src, tail) ==
  IF src = 0 THEN [heap |-> h, head |-> 0]
  ELSE LET n == Alloc(h)
           h1 == [h EXCEPT ![n] = [h[src] EXCEPT !.next = 0]]
           h2 == IF tail = 0 THEN h1 ELSE [h1 EXCEPT ![tail].next = n]
           rest == CopyShallow(h2, h[src].next, n)
       IN  [heap |-> rest.heap, head |-> n]

rocm_solib_copy_list_shallow(h, src) == CopyShallow(h, src, 0)

\* The loop of rocm_solib_copy_list: newobj = memcpy of *src, a new lm_info
\* copied from src's, next = nullptr, linked after the previous copy.
RECURSIVE CopyFrom(_, _, _)
CopyFrom(h, src, tail) ==
  IF src = 0 THEN [heap |-> h, head |-> 0]
  ELSE LET n == Alloc(h)
           h1 == [h EXCEPT ![n] = h[src]]
           li == Alloc(h1)
           h2 == [h1 EXCEPT ![li] = LiCell(h[h[src].lm_info].l_addr),
                            ![n].lm_info = li, ![n].next = 0]
           h3 == IF tail = 0 THEN h2 ELSE [h2 EXCEPT ![tail].next = n]
           rest == CopyFrom(h3, h[src].next, n)
       IN  [heap |-> rest.heap, head |-> n]

\* rocm_solib_copy_list (src): [heap, head of the copy].
rocm_solib_copy_list(h, src) == CopyFrom(h, src, 0)

\* svr4_so_ops.current_sos: a freshly allocated list of the host's modules.
RECURSIVE svr4_current_sos(_, _, _)
svr4_current_sos(h, H, tail) ==
  IF H = <<>> THEN [heap |-> h, head |-> 0]
  ELSE LET n == Alloc(h)
           h1 == [h EXCEPT ![n] = SoCell([text |-> Head(H), len |-> 7], Head(H), 0)]
           li == Alloc(h1)
           h2 == [h1 EXCEPT ![li] = LiCell(0), ![n].lm_info = li]
           h3 == IF tail = 0 THEN h2 ELSE [h2 EXCEPT ![tail].next = n]
           rest == svr4_current_sos(h3, Tail(H), n)
       IN  [heap |-> rest.heap, head |-> n]

Last(s) == s[Len(s)]

\* A plausible slip: the device list put in front of the host list.
rocm_solib_current_sos_swapped(s, inf, H) ==
  LET host == svr4_current_sos(s.heap, H, 0)
      s1   == get_solib_info(Logged(s, "svr4.current_sos"), inf)
      list == s1.info[inf]
  IN  IF list = 0 THEN [st |-> [s1 EXCEPT !.heap = host.heap], head |-> host.head]
      ELSE LET copy == rocm_solib_copy_list(host.heap, list)
           IN  IF host.head = 0
               THEN [st |-> [s1 EXCEPT !.heap = copy.heap], head |-> copy.head]
               ELSE LET tail == Last(Nodes(copy.heap, copy.head))
                    IN  [st |-> [s1 EXCEPT !.heap = [copy.heap EXCEPT ![tail].next = host.head]],
                         head |-> copy.head]

\* A plausible slip: the registry's own nodes appended, not a copy of them.
rocm_solib_current_sos_no_copy(s, inf, H) ==
  LET host == svr4_current_sos(s.heap, H, 0)
      s1   == get_solib_info(Logged(s, "svr4.current_sos"), inf)
      list == s1.info[inf]
  IN  IF list = 0 \/ host.head = 0
      THEN [st |-> [s1 EXCEPT !.heap = host.heap],
            head |-> IF host.head = 0 THEN list ELSE host.head]
      ELSE LET tail == Last(Nodes(host.heap, host.head))
           IN  [st |-> [s1 EXCEPT !.heap = [host.heap EXCEPT ![tail].next = list]],
                head |-> host.head]

\* rocm_solib_current_sos for inferior inf, the host answering H:
\* [st: the state afterwards, head: the list returned].
rocm_solib_current_sos(s, inf, H) ==
  LET host == svr4_current_sos(s.heap, H, 0)
      s1   == get_solib_info(Logged(s, "svr4.current_sos"), inf)
      list == s1.info[inf]
  IN  IF list = 0 THEN [st |-> [s1 EXCEPT !.heap = host.heap], head |-> host.head]
      ELSE LET copy == rocm_solib_copy_list(host.heap, list)
           IN  IF host.head = 0
               THEN [st |-> [s1 EXCEPT !.heap = copy.heap], head |-> copy.head]
               ELSE LET tail == Last(Nodes(copy.heap, host.head))
                    IN  [st |-> [s1 EXCEPT !.heap = [copy.heap EXCEPT ![tail].next = copy.head]],
                         head |-> host.head]

-----------------------------------------------------------------------------
(* rocm_update_solib_list.                                                 *)

\* strncpy (so->so_name, uri_bytes, sizeof (so->so_name)) and the '\0' put in
\* the last byte: at most SO_NAME_MAX_PATH_SIZE - 1 characters are kept.
strncpy_so_name(u) ==
  IF u.len >= SO_NAME_MAX_PATH_SIZE
  THEN [text |-> u.text, len |-> SO_NAME_MAX_PATH_SIZE - 1]
  ELSE u

\* A plausible slip: the unique name made from the URI, not from the handle.
so_original_name_from_uri(h) == UriOf(h).text

\* xsnprintf (so->so_original_name, ..., "code_object_%ld", handle).
so_original_name(h) == "code_object_" \o ToString(h)

\* The for loop over code_object_list: a code object whose load address or
\* URI query fails is skipped; the others are appended through *link.
RECURSIVE BuildLoop(_, _, _, _)
BuildLoop(s, inf, tail, list) ==
  IF list = <<>> THEN s
  ELSE LET co == Head(list)
       IN  IF co.info = "no_load_address" \/ co.info = "no_uri_name"
           THEN BuildLoop(s, inf, tail, Tail(list))
           ELSE LET so == Alloc(s.heap)
                    h1 == [s.heap EXCEPT
                             ![so] = SoCell(strncpy_so_name(UriOf(co.handle)),
                                            so_original_name(co.handle), 0)]
                    li == Alloc(h1)
                    h2 == [h1 EXCEPT ![li] = LiCell(LoadAddrOf(co.handle)),
                                     ![so].lm_info = li]
                    h3 == IF tail = 0 THEN h2 ELSE [h2 EXCEPT ![tail].next = so]
                    s1 == [s EXCEPT !.heap = h3,
                                    !.info[inf] = IF tail = 0 THEN so ELSE @]
                IN  BuildLoop(s1, inf, so, Tail(list))

\* A plausible slip: error () where the code has warning ().
rocm_update_solib_list_error(s, inf, attached, q) ==
  IF ~attached THEN s
  ELSE LET s1 == rocm_free_solib_list(get_solib_info(s, inf), inf)
           s2 == Logged(s1, "code_object_list")
       IN  IF q.status # "ok" THEN [Logged(s2, "error") EXCEPT !.thrown = TRUE]
           ELSE LET s3 == BuildLoop(s2, inf, 0, q.list)
                IN  IF ~s3.ops
                    THEN Logged([s3 EXCEPT !.ops = TRUE], "set_gdbarch_so_ops")
                    ELSE s3

\* rocm_update_solib_list for the current inferior inf; attached is
\* process_id.handle # AMD_DBGAPI_PROCESS_NONE.handle, q the runtime's answers.
rocm_update_solib_list(s, inf, attached, q) ==
  IF ~attached THEN s
  ELSE LET s1 == rocm_free_solib_list(get_solib_info(s, inf), inf)
           s2 == Logged(s1, "code_object_list")
       IN  IF q.status # "ok" THEN Logged(s2, "warning")
           ELSE LET s3 == BuildLoop(s2, inf, 0, q.list)
                IN  IF ~s3.ops
                    THEN Logged([s3 EXCEPT !.ops = TRUE], "set_gdbarch_so_ops")
                    ELSE s3

\* A statement that follows a call: skipped when the call threw.
AndThen(s, what) == IF s.thrown THEN s ELSE Logged(s, what)

\* A plausible slip: the list rebuilt before the host's handler has run.
rocm_solib_handle_event_late_forward(s, inf, attached, q) ==
  AndThen(rocm_update_solib_list(s, inf, attached, q), "svr4.handle_event")

\* A plausible slip: the event handler clears the list as the create hook
\* does and leaves the rebuild to a later event.
rocm_solib_handle_event_clear(s, inf, attached, q) ==
  rocm_free_solib_list(get_solib_info(Logged(s, "svr4.handle_event"), inf),
                       inf)

\* rocm_solib_handle_event: svr4_so_ops.handle_event (), then
\* rocm_update_solib_list ().
rocm_solib_handle_event(s, inf, attached, q) ==
  rocm_update_solib_list(Logged(s, "svr4.handle_event"), inf, attached, q)

\* A plausible slip: the hook forwards without clearing the list.
rocm_solib_create_inferior_hook_no_clear(s, inf) ==
  Logged(s, "svr4.solib_create_inferior_hook")

\* A plausible slip: one list for all inferiors, so that the hook clears
\* the registry of every inferior.
RECURSIVE FreeAll(_, _)
FreeAll(s, infs) ==
  IF infs = {} THEN s
  ELSE LET i == CHOOSE j \in infs : TRUE
       IN  FreeAll(rocm_free_solib_list(get_solib_info(s, i), i), infs \ {i})

rocm_solib_create_inferior_hook_all(s, inf) ==
  Logged(FreeAll(s, Inferiors), "svr4.solib_create_inferior_hook")

\* rocm_solib_create_inferior_hook: rocm_free_solib_list, then
\* svr4_so_ops.solib_create_inferior_hook (from_tty).
rocm_solib_create_inferior_hook(s, inf) ==
  Logged(rocm_free_solib_list(get_solib_info(s, inf), inf),
         "svr4.solib_create_inferior_hook")

\* rocm_solib_target_inferior_created (inf), cur being current_inferior ().
rocm_solib_target_inferior_created(s, inf, cur, attached, q) ==
  LET s1 == rocm_free_solib_list(get_solib_info(s, inf), inf)
      s2 == rocm_update_solib_list(s1, cur, attached, q)
  IN  AndThen(AndThen(s2, "clear_solib_cache"), "solib_add")

\* The deleter of rocm_solib_data: solib_info has no destructor, so deleting
\* it releases the struct alone; the nodes of solib_list stay allocated and
\* nothing points to them any more.
solib_info_delete(s, inf) ==
  IF s.info[inf] = NoInfo THEN s
  ELSE LET nodes == Nodes(s.heap, s.info[inf])
           gone  == {nodes[i] : i \in 1 .. Len(nodes)}
                    \cup {s.heap[nodes[i]].lm_info : i \in 1 .. Len(nodes)}
       IN  [s EXCEPT !.info[inf] = NoInfo,
                     !.leaked = @ + Len(nodes),
                     !.heap = [a \in Addr |-> IF a \in gone THEN FreeCell ELSE s.heap[a]]]

-----------------------------------------------------------------------------
(* rocm_bfd_iovec_open: the URI of a code object.                          *)
(*                                                                         *)
(* A URI is the sequence of its bytes. Positions are counted from 0 as in  *)
(* the code; the byte after the last one is the terminating NUL.           *)

LowerCase == <<"a", "b", "c", "d", "e", "f", "g", "h", "i", "j", "k", "l", "m",
               "n", "o", "p", "q", "r", "s", "t", "u", "v", "w", "x", "y", "z">>

UpperCase == <<"A", "B", "C", "D", "E", "F", "G", "H", "I", "J", "K", "L", "M",
               "N", "O", "P", "Q", "R", "S", "T", "U", "V", "W", "X", "Y", "Z">>

DigitChars == <<"0", "1", "2", "3", "4", "5", "6", "7", "8", "9">>

Punctuation == (":" :> 58) @@ ("/" :> 47) @@ ("%" :> 37) @@ ("?" :> 63)
               @@ ("#" :> 35) @@ ("&" :> 38) @@ ("=" :> 61) @@ ("." :> 46)
               @@ ("-" :> 45) @@ (" " :> 32)

IndexIn(seq, c) == CHOOSE k \in 1 .. Len(seq) : seq[k] = c

\* The ASCII code of a character.
Asc(c) ==
  IF \E k \in 1 .. 26 : LowerCase[k] = c THEN 96 + IndexIn(LowerCase, c)
  ELSE IF \E k \in 1 .. 26 : UpperCase[k] = c THEN 64 + IndexIn(UpperCase, c)
  ELSE IF \E k \in 1 .. 10 : DigitChars[k] = c THEN 47 + IndexIn(DigitChars, c)
  ELSE Punctuation[c]

Bytes(cs) == [k \in 1 .. Len(cs) |-> Asc(cs[k])]

\* The protocols rocm_bfd_iovec_open knows.
File == Bytes(<<"f", "i", "l", "e">>)

Memory == Bytes(<<"m", "e", "m", "o", "r", "y">>)

\* std::string::npos and the results of size_t arithmetic on it.
npos == -1

\* The byte at position k of the buffer behind a string_view on u.
At(u, k) == IF k >= 0 /\ k < Len(u) THEN u[k + 1] ELSE 0

\* string_view::substr (pos, n) and substr (pos).
substr(u, pos, n) ==
  IF n = npos \/ pos + n > Len(u) THEN SubSeq(u, pos + 1, Len(u))
  ELSE SubSeq(u, pos + 1, pos + n)

Matches(u, pat, k) ==
  /\ k + Len(pat) <= Len(u)
  /\ \A j \in 1 .. Len(pat) : u[k + j] = pat[j]

\* string_view::find (pat, pos): the first position >= pos where pat starts.
find(u, pat, pos) ==
  IF pos = npos \/ ~\E k \in pos .. Len(u) : Matches(u, pat, k) THEN npos
  ELSE CHOOSE k \in pos .. Len(u) :
         Matches(u, pat, k) /\ \A j \in pos .. k - 1 : ~Matches(u, pat, j)

\* string_view::find_first_of (set, pos).
find_first_of(u, set, pos) ==
  IF pos = npos \/ ~\E k \in pos .. Len(u) - 1 : u[k + 1] \in set THEN npos
  ELSE CHOOSE k \in pos .. Len(u) - 1 :
         u[k + 1] \in set /\ \A j \in pos .. k - 1 : u[j + 1] \notin set

\* std::tolower on one byte, and the std::transform over the protocol.
tolower(c) == IF c >= 65 /\ c <= 90 THEN c + 32 ELSE c

lowercase(u) == [k \in 1 .. Len(u) |-> tolower(u[k])]

\* std::isxdigit.
isxdigit(c) ==
  \/ c >= 48 /\ c <= 57
  \/ c >= 65 /\ c <= 70
  \/ c >= 97 /\ c <= 102

\* The value of a digit in bases up to 16.
digit_to_int(c) ==
  IF c >= 48 /\ c <= 57 THEN c - 48
  ELSE IF c >= 97 /\ c <= 102 THEN c - 87
  ELSE c - 55

\* std::stoi (hex_digits, 0, 16) of two hexadecimal digits.
stoi16(c1, c2) == 16 * digit_to_int(c1) + digit_to_int(c2)

\* i < path.length () - 2 in size_t: the difference wraps when the path has
\* fewer than two bytes, and every i is below it.
BelowLengthMinus2(i, len) == IF len < 2 THEN TRUE ELSE i < len - 2

\* A plausible slip: the bound one too low, an escape that ends the path is
\* left undecoded.
RECURSIVE DecodeShort(_, _, _, _)
DecodeShort(u, start, len, i) ==
  IF i >= len THEN <<>>
  ELSE IF /\ At(u, start + i) = 37
          /\ (IF len < 3 THEN TRUE ELSE i < len - 3)
          /\ isxdigit(At(u, start + i + 1))
          /\ isxdigit(At(u, start + i + 2))
       THEN <<stoi16(At(u, start + i + 1), At(u, start + i + 2))>>
            \o DecodeShort(u, start, len, i + 3)
       ELSE <<At(u, start + i)>> \o DecodeShort(u, start, len, i + 1)

percent_decode_short(u, start, len) == DecodeShort(u, start, len, 0)

\* The %-decode loop over path, the len bytes of u from position start.
RECURSIVE DecodeFrom(_, _, _, _)
DecodeFrom(u, start, len, i) ==
  IF i >= len THEN <<>>
  ELSE IF /\ At(u, start + i) = 37
          /\ BelowLengthMinus2(i, len)
          /\ isxdigit(At(u, start + i + 1))
          /\ isxdigit(At(u, start + i + 2))
       THEN <<stoi16(At(u, start + i + 1), At(u, start + i + 2))>>
            \o DecodeFrom(u, start, len, i + 3)
       ELSE <<At(u, start + i)>> \o DecodeFrom(u, start, len, i + 1)

percent_decode(u, start, len) == DecodeFrom(u, start, len, 0)

\* The tokens of the query or fragment, each as [pos, len] in u: the while
\* loop over '&' from last, and the final token when last is not npos.
RECURSIVE Tokenize(_, _)
Tokenize(u, last) ==
  LET pos == find(u, <<38>>, last)
  IN  IF pos # npos
      THEN <<[pos |-> last, len |-> pos - last]>> \o Tokenize(u, pos + 1)
      ELSE IF last # npos THEN <<[pos |-> last, len |-> Len(u) - last]>>
           ELSE <<>>

\* A plausible slip: insert-or-assign, the last value of a tag is stored.
emplace_overwrite(params, tag, val) ==
  IF \E k \in 1 .. Len(params) : params[k].tag = tag
  THEN [k \in 1 .. Len(params) |->
          IF params[k].tag = tag THEN [tag |-> tag, val |-> val]
          ELSE params[k]]
  ELSE Append(params, [tag |-> tag, val |-> val])

\* params.emplace (tag, val): nothing is stored when the tag is in the map.
emplace(params, tag, val) ==
  IF \E k \in 1 .. Len(params) : params[k].tag = tag THEN params
  ELSE Append(params, [tag |-> tag, val |-> val])

\* The tag-value map: a token without '=' is dropped, and emplace keeps the
\* value already stored for a tag. Values are [pos, len] in u.
RECURSIVE MakeParams(_, _, _)
MakeParams(u, tokens, params) ==
  IF tokens = <<>> THEN params
  ELSE LET tok   == Head(tokens)
           text  == substr(u, tok.pos, tok.len)
           delim == find(text, <<61>>, 0)
       IN  IF delim = npos THEN MakeParams(u, Tail(tokens), params)
           ELSE LET tag == substr(text, 0, delim)
                    val == [pos |-> tok.pos + delim + 1,
                            len |-> tok.len - delim - 1]
                IN  MakeParams(u, Tail(tokens), emplace(params, tag, val))

HasParam(params, tag) == \E k \in 1 .. Len(params) : params[k].tag = tag

ParamOf(params, tag) ==
  params[CHOOSE k \in 1 .. Len(params) : params[k].tag = tag].val

\* strtoulst (num, nullptr, 0) on the C string that starts at position pos of
\* u: "0x" or "0X" starts a hexadecimal literal, another leading 0 an octal
\* one, anything else a decimal one; the digits that follow are the value;
\* errno is set when there is no digit to read.
is_digit_in_base(c, base) ==
  /\ isxdigit(c)
  /\ digit_to_int(c) < base

RECURSIVE DigitsValue(_, _, _, _)
DigitsValue(u, i, base, acc) ==
  IF is_digit_in_base(At(u, i), base)
  THEN DigitsValue(u, i + 1, base, acc * base + digit_to_int(At(u, i)))
  ELSE acc

strtoulst(u, pos) ==
  LET hex   == At(u, pos) = 48 /\ At(u, pos + 1) \in {120, 88}
      base  == IF hex THEN 16 ELSE IF At(u, pos) = 48 THEN 8 ELSE 10
      first == IF hex THEN pos + 2 ELSE pos
  IN  IF is_digit_in_base(At(u, first), base)
      THEN [errno |-> 0, value |-> DigitsValue(u, first, base, 0)]
      ELSE [errno |-> 1, value |-> 0]

\* try_strtoulst (v): strtoulst on v.data (), an error when errno is set.
try_strtoulst(u, v) ==
  LET r == strtoulst(u, v.pos)
  IN  IF r.errno # 0 THEN [thrown |-> TRUE, value |-> 0]
      ELSE [thrown |-> FALSE, value |-> r.value]

\* A plausible slip: size 0 is taken as any other size.
invalid_size_accepted(found, size) == FALSE

\* if (size == 0) error (...), reached when the size tag is found.
invalid_size(found, size) == found /\ size = 0

ParseFailure(protocol, decoded, what) ==
  [status |-> "error", error |-> what, protocol |-> protocol,
   decoded_path |-> decoded, offset |-> 0, size |-> 0]

\* rocm_bfd_iovec_open up to the dispatch on the protocol: the protocol in
\* lower case, the decoded path, and offset and size, or the error raised.
ParseUri(u) ==
  LET found        == find(u, <<58, 47, 47>>, 0)
      protocol     == lowercase(substr(u, 0, found))
      protocol_end == IF found = npos THEN 2 ELSE found + 3
      sep          == find_first_of(u, {35, 63}, protocol_end)
      path_len     == IF sep # npos THEN sep - protocol_end
                      ELSE Len(u) - protocol_end
      path_end     == IF sep # npos THEN sep + 1 ELSE npos
      decoded_path == percent_decode(u, protocol_end, path_len)
      params       == MakeParams(u, Tokenize(u, path_end), <<>>)
      offset_tag   == <<111, 102, 102, 115, 101, 116>>
      size_tag     == <<115, 105, 122, 101>>
      offset       == IF HasParam(params, offset_tag)
                      THEN try_strtoulst(u, ParamOf(params, offset_tag))
                      ELSE [thrown |-> FALSE, value |-> 0]
      size         == IF HasParam(params, size_tag)
                      THEN try_strtoulst(u, ParamOf(params, size_tag))
                      ELSE [thrown |-> FALSE, value |-> 0]
  IN  IF offset.thrown \/ size.thrown
      THEN ParseFailure(protocol, decoded_path, "Failed to parse integer.")
      ELSE IF invalid_size(HasParam(params, size_tag), size.value)
      THEN ParseFailure(protocol, decoded_path, "Invalid size value")
      ELSE [status |-> "ok", error |-> "", protocol |-> protocol,
            decoded_path |-> decoded_path, offset |-> offset.value,
            size |-> size.value]

-----------------------------------------------------------------------------
(* The streams behind a bfd, and the whole of rocm_bfd_iovec_open.         *)

\* The path of the URI as a view [pos, len] of u, as ParseUri takes it.
PathView(u) ==
  LET found        == find(u, <<58, 47, 47>>, 0)
      protocol_end == IF found = npos THEN 2 ELSE found + 3
      sep          == find_first_of(u, {35, 63}, protocol_end)
  IN  [pos |-> protocol_end,
       len |-> IF sep # npos THEN sep - protocol_end
               ELSE Len(u) - protocol_end]

\* The %-decode loop evaluates path[i + 1] with i + 1 = path.length (): the
\* path is the one byte '%', for which i < path.length () - 2 holds by wrap.
ReadsOutsideView(u) ==
  LET path == PathView(u)
  IN  path.len = 1 /\ At(u, path.pos) = 37

\* What an index outside a string_view does: the byte behind the view is
\* read (the separator or the terminating NUL), or the bounds assertion of
\* the library fails and ends the program.
ViewReads(u) ==
  IF ReadsOutsideView(u) THEN {"byte_behind", "assertion"} ELSE {"in_view"}

NoStream == [kind |-> "none", m_fd |-> 0, m_offset |-> 0, m_size |-> 0,
             m_objfile_image |-> <<>>]

\* new rocm_code_object_stream_file (fd, offset, size).
rocm_code_object_stream_file(fd, offset, size) ==
  [kind |-> "file", m_fd |-> fd, m_offset |-> offset, m_size |-> size,
   m_objfile_image |-> <<>>]

\* new rocm_code_object_stream_memory (std::move (buffer)).
rocm_code_object_stream_memory(buffer) ==
  [kind |-> "memory", m_fd |-> 0, m_offset |-> 0, m_size |-> 0,
   m_objfile_image |-> buffer]

\* target_read_memory (memaddr, buf, len) on memory, the bytes at addresses
\* 0 .. Len(memory) - 1: 0 and the bytes, or an error when the range is not
\* all mapped or the read fails (fault). A read of no bytes transfers
\* nothing and succeeds.
target_read_memory(memory, memaddr, len, fault) ==
  IF len > 0 /\ (fault \/ memaddr + len > Len(memory))
  THEN [status |-> -1, bytes |-> <<>>]
  ELSE [status |-> 0, bytes |-> SubSeq(memory, memaddr + 1, memaddr + len)]

\* What one call of rocm_bfd_iovec_open leaves: the stream it returns (none
\* for nullptr), the bfd error it set, its warnings, the message of the
\* exception it caught, and the calls it made on the target.
\* For target_fileio_open, the file name and the flags it was given.
Opened(st, error, warnings, caught, calls) ==
  [stream |-> st, error |-> error, warnings |-> warnings, caught |-> caught,
   calls |-> calls, filename |-> <<>>, flags |-> ""]

\* std::string::c_str () read as a C string: the bytes before the first NUL.
c_str(s) ==
  IF \E k \in 1 .. Len(s) : s[k] = 0
  THEN SubSeq(s, 1, (CHOOSE k \in 1 .. Len(s) :
                       s[k] = 0 /\ \A j \in 1 .. k - 1 : s[j] # 0) - 1)
  ELSE s

\* protocol == "file": the target file decoded_path.c_str () is opened
\* read-only, and the descriptor it gets is the stream's.
open_file(p, fd) ==
  [Opened(IF fd = -1 THEN NoStream
          ELSE rocm_code_object_stream_file(fd, p.offset, p.size),
          IF fd = -1 THEN "system_call" ELSE "none", <<>>, "",
          <<"target_fileio_open">>)
     EXCEPT !.filename = c_str(p.decoded_path), !.flags = "FILEIO_O_RDONLY"]

\* A plausible slip: the pid of the URI is not compared.
open_memory_any_pid(u, p, inferior_pid, memory, fault) ==
  LET r == target_read_memory(memory, p.offset, p.size, fault)
  IN  IF r.status # 0
      THEN Opened(NoStream, "bad_value",
                  <<"Failed to copy the code object from the inferior">>,
                  "", <<"target_read_memory">>)
      ELSE Opened(rocm_code_object_stream_memory(r.bytes), "none", <<>>, "",
                  <<"target_read_memory">>)

\* A plausible slip: the buffer is filled from address 0, not from offset.
open_memory_no_offset(u, p, inferior_pid, memory, fault) ==
  LET pid == try_strtoulst(u, PathView(u))
      r   == target_read_memory(memory, 0, p.size, fault)
  IN  IF pid.thrown
      THEN Opened(NoStream, "bad_value", <<>>, "Failed to parse integer.",
                  <<>>)
      ELSE IF pid.value # inferior_pid
      THEN Opened(NoStream, "bad_value",
                  <<"code object is from another inferior">>, "", <<>>)
      ELSE IF r.status # 0
      THEN Opened(NoStream, "bad_value",
                  <<"Failed to copy the code object from the inferior">>,
                  "", <<"target_read_memory">>)
      ELSE Opened(rocm_code_object_stream_memory(r.bytes), "none", <<>>, "",
                  <<"target_read_memory">>)

\* A plausible slip: a failed read is tried once more.
open_memory_retry(u, p, inferior_pid, memory, fault) ==
  LET pid == try_strtoulst(u, PathView(u))
      r   == target_read_memory(memory, p.offset, p.size, fault)
      r2  == target_read_memory(memory, p.offset, p.size, FALSE)
  IN  IF pid.thrown
      THEN Opened(NoStream, "bad_value", <<>>, "Failed to parse integer.",
                  <<>>)
      ELSE IF pid.value # inferior_pid
      THEN Opened(NoStream, "bad_value",
                  <<"code object is from another inferior">>, "", <<>>)
      ELSE IF r.status = 0
      THEN Opened(rocm_code_object_stream_memory(r.bytes), "none", <<>>, "",
                  <<"target_read_memory">>)
      ELSE IF r2.status # 0
      THEN Opened(NoStream, "bad_value",
                  <<"Failed to copy the code object from the inferior">>,
                  "", <<"target_read_memory", "target_read_memory">>)
      ELSE Opened(rocm_code_object_stream_memory(r2.bytes), "none", <<>>, "",
                  <<"target_read_memory", "target_read_memory">>)

\* protocol == "memory": the pid is read from the path as it is in the URI,
\* compared with inferior->pid, and size bytes at offset are copied.
open_memory(u, p, inferior_pid, memory, fault) ==
  LET pid == try_strtoulst(u, PathView(u))
      r   == target_read_memory(memory, p.offset, p.size, fault)
  IN  IF pid.thrown
      THEN Opened(NoStream, "bad_value", <<>>, "Failed to parse integer.",
                  <<>>)
      ELSE IF pid.value # inferior_pid
      THEN Opened(NoStream, "bad_value",
                  <<"code object is from another inferior">>, "", <<>>)
      ELSE IF r.status # 0
      THEN Opened(NoStream, "bad_value",
                  <<"Failed to copy the code object from the inferior">>,
                  "", <<"target_read_memory">>)
      ELSE Opened(rocm_code_object_stream_memory(r.bytes), "none", <<>>, "",
                  <<"target_read_memory">>)

\* A plausible slip: the protocol is refused without a word.
unsupported_protocol_silent(p) ==
  Opened(NoStream, "bad_value", <<>>, "", <<>>)

\* Neither "file" nor "memory".
unsupported_protocol(p) ==
  Opened(NoStream, "bad_value", <<"protocol not supported">>, "", <<>>)

\* A plausible slip: the file is opened before offset and size are parsed.
rocm_bfd_iovec_open_late_check(u, inferior_pid, memory, fd, fault) ==
  LET p == ParseUri(u)
  IN  IF p.protocol = File /\ p.status = "error"
      THEN Opened(NoStream, "bad_value", <<>>, p.error,
                  <<"target_fileio_open">>)
      ELSE IF p.status = "error"
      THEN Opened(NoStream, "bad_value", <<>>, p.error, <<>>)
      ELSE IF p.protocol = File THEN open_file(p, fd)
      ELSE IF p.protocol = Memory
      THEN open_memory(u, p, inferior_pid, memory, fault)
      ELSE unsupported_protocol(p)

\* rocm_bfd_iovec_open (abfd, inferior): the URI is parsed, then the
\* protocol chooses the stream. An error raised on the way is caught.
rocm_bfd_iovec_open(u, inferior_pid, memory, fd, fault) ==
  LET p == ParseUri(u)
  IN  IF p.status = "error"
      THEN Opened(NoStream, "bad_value", <<>>, p.error, <<>>)
      ELSE IF p.protocol = File THEN open_file(p, fd)
      ELSE IF p.protocol = Memory
      THEN open_memory(u, p, inferior_pid, memory, fault)
      ELSE unsupported_protocol(p)

\* rocm_code_object_stream_memory::size ().
rocm_code_object_stream_memory_size(image) == Len(image)

\* size > m_objfile_image.size () - offset: size and offset are file_ptr,
\* the difference is a size_t and wraps when offset is past the end; no
\* size that is not negative is above the wrapped difference.
AboveRemaining(size, length, offset) ==
  IF offset > length THEN FALSE ELSE size > length - offset

\* The byte memcpy finds at position k of m_objfile_image.data (): a byte of
\* the image, or for a position outside the vector whatever lies there.
ImageByte(image, k, junk) ==
  IF k < Len(image) THEN image[k + 1] ELSE junk

\* A plausible slip: data () without the offset, every read starts at the
\* start of the image.
rocm_code_object_stream_memory_read_from_start(image, size, offset, junk) ==
  LET n == IF AboveRemaining(size, Len(image), offset)
           THEN Len(image) - offset ELSE size
  IN  [nbytes |-> n,
       bytes |-> [j \in 1 .. n |-> ImageByte(image, j - 1, junk)],
       outside |-> 0]

\* rocm_code_object_stream_memory::read (buf, size, offset): the number of
\* bytes copied, the bytes, and how many of them lie outside the image.
rocm_code_object_stream_memory_read(image, size, offset, junk) ==
  LET n == IF AboveRemaining(size, Len(image), offset)
           THEN Len(image) - offset ELSE size
  IN  [nbytes |-> n,
       bytes |-> [j \in 1 .. n |-> ImageByte(image, offset + j - 1, junk)],
       outside |-> Cardinality({j \in 1 .. n : offset + j - 1 >= Len(image)})]

\* What may happen at one turn of the loop of a read of a file: the user
\* interrupts gdb before the request ("quit"), or the target answers the
\* request with an error, with all it has of what was asked, or with one
\* byte of it.
Turns == {"all", "one", "error", "quit"}

\* target_fileio_pread (fd, buf, len, offset): the bytes read, never more
\* than len and none at or behind the end of the file, or -1.
target_fileio_pread(file_len, len, pos, turn) ==
  IF turn = "error" THEN -1
  ELSE LET left == IF pos < file_len THEN file_len - pos ELSE 0
           want == IF turn = "one" /\ len > 1 THEN 1 ELSE len
       IN  IF want < left THEN want ELSE left

\* A plausible slip: every request is made at the start of the read.
file_position_fixed(st, offset, nbytes) == st.m_offset + offset

\* A plausible slip: the offset of the image in the file is left out.
file_position_image(st, offset, nbytes) == offset + nbytes

\* m_offset + offset + nbytes: where in the file the next request reads.
file_position(st, offset, nbytes) == st.m_offset + offset + nbytes

\* A plausible slip: a failed request ends the read with the bytes so far.
read_failed_partial(nbytes) == nbytes

\* What read returns when a request failed.
read_failed(nbytes) == -1

\* rocm_code_object_stream_file::read (buf, size, offset) enters its loop
\* with nothing read: "reading" while size > 0, else it returns nbytes.
rocm_code_object_stream_file_read(size, offset) ==
  [status |-> IF size > 0 THEN "reading" ELSE "read", left |-> size,
   nbytes |-> 0, error |-> "none", requests |-> <<>>, quits |-> 0]

\* A plausible slip: size is not reduced by the bytes a request delivered.
file_read_turn_size_kept(st, file_len, offset, l, turn) ==
  IF turn = "quit"
  THEN [l EXCEPT !.status = "quit", !.quits = @ + 1]
  ELSE LET pos == file_position(st, offset, l.nbytes)
           bytes_read == target_fileio_pread(file_len, l.left, pos, turn)
           made == Append(l.requests, [pos |-> pos, len |-> l.left,
                                       bytes_read |-> bytes_read])
       IN  IF bytes_read = 0
           THEN [l EXCEPT !.status = "read", !.requests = made,
                          !.quits = @ + 1]
           ELSE IF bytes_read < 0
           THEN [l EXCEPT !.status = "read",
                          !.nbytes = read_failed(l.nbytes),
                          !.error = "system_call", !.requests = made,
                          !.quits = @ + 1]
           ELSE [l EXCEPT !.nbytes = @ + bytes_read,
                          !.requests = made, !.quits = @ + 1]

\* One turn of the loop of read, with l.left bytes left to read and
\* l.nbytes read: QUIT, the request and what its answer makes of the loop.
\* The read goes on ("reading"), returns nbytes ("read") or is left by the
\* exception of QUIT ("quit").
file_read_turn(st, file_len, offset, l, turn) ==
  IF turn = "quit"
  THEN [l EXCEPT !.status = "quit", !.quits = @ + 1]
  ELSE LET pos == file_position(st, offset, l.nbytes)
           bytes_read == target_fileio_pread(file_len, l.left, pos, turn)
           made == Append(l.requests, [pos |-> pos, len |-> l.left,
                                       bytes_read |-> bytes_read])
       IN  IF bytes_read = 0
           THEN [l EXCEPT !.status = "read", !.requests = made,
                          !.quits = @ + 1]
           ELSE IF bytes_read < 0
           THEN [l EXCEPT !.status = "read",
                          !.nbytes = read_failed(l.nbytes),
                          !.error = "system_call", !.requests = made,
                          !.quits = @ + 1]
           ELSE [l EXCEPT !.status = IF l.left - bytes_read > 0
                                     THEN "reading" ELSE "read",
                          !.left = @ - bytes_read,
                          !.nbytes = @ + bytes_read,
                          !.requests = made, !.quits = @ + 1]

\* A plausible slip: the size is worked out at every call and never kept.
rocm_code_object_stream_file_size_uncached(st, file_len, fstat_fails) ==
  IF fstat_fails
  THEN [ret |-> -1, error |-> "system_call", stream |-> st,
        calls |-> <<"target_fileio_fstat">>]
  ELSE IF st.m_offset >= file_len
  THEN [ret |-> -1, error |-> "bad_value", stream |-> st,
        calls |-> <<"target_fileio_fstat">>]
  ELSE [ret |-> file_len - st.m_offset, error |-> "none", stream |-> st,
        calls |-> <<"target_fileio_fstat">>]

\* A plausible slip: the offset is not held against the length of the file.
rocm_code_object_stream_file_size_unchecked(st, file_len, fstat_fails) ==
  IF st.m_size # 0
  THEN [ret |-> st.m_size, error |-> "none", stream |-> st, calls |-> <<>>]
  ELSE IF fstat_fails
  THEN [ret |-> -1, error |-> "system_call", stream |-> st,
        calls |-> <<"target_fileio_fstat">>]
  ELSE [ret |-> file_len - st.m_offset, error |-> "none",
        stream |-> [st EXCEPT !.m_size = file_len - st.m_offset],
        calls |-> <<"target_fileio_fstat">>]

\* A plausible slip: the offset is held against the length of the file at
\* every call, whether the size is known or not.
rocm_code_object_stream_file_size_validated(st, file_len, fstat_fails) ==
  IF fstat_fails
  THEN [ret |-> -1, error |-> "system_call", stream |-> st,
        calls |-> <<"target_fileio_fstat">>]
  ELSE IF st.m_offset >= file_len
  THEN [ret |-> -1, error |-> "bad_value", stream |-> st,
        calls |-> <<"target_fileio_fstat">>]
  ELSE IF st.m_size # 0
  THEN [ret |-> st.m_size, error |-> "none", stream |-> st,
        calls |-> <<"target_fileio_fstat">>]
  ELSE [ret |-> file_len - st.m_offset, error |-> "none",
        stream |-> [st EXCEPT !.m_size = file_len - st.m_offset],
        calls |-> <<"target_fileio_fstat">>]

\* rocm_code_object_stream_file::size (): the return, the bfd error, the
\* stream afterwards and the calls on the target. file_len is the st_size
\* target_fileio_fstat reports unless it fails.
rocm_code_object_stream_file_size(st, file_len, fstat_fails) ==
  IF st.m_size # 0
  THEN [ret |-> st.m_size, error |-> "none", stream |-> st, calls |-> <<>>]
  ELSE IF fstat_fails
  THEN [ret |-> -1, error |-> "system_call", stream |-> st,
        calls |-> <<"target_fileio_fstat">>]
  ELSE IF st.m_offset >= file_len
  THEN [ret |-> -1, error |-> "bad_value", stream |-> st,
        calls |-> <<"target_fileio_fstat">>]
  ELSE [ret |-> file_len - st.m_offset, error |-> "none",
        stream |-> [st EXCEPT !.m_size = file_len - st.m_offset],
        calls |-> <<"target_fileio_fstat">>]

\* rocm_code_object_stream::stat (sb): 0 and the size in sb->st_size, or -1.
rocm_code_object_stream_stat(st, file_len, fstat_fails) ==
  IF st.kind = "file"
  THEN rocm_code_object_stream_file_size(st, file_len, fstat_fails)
  ELSE [ret |-> rocm_code_object_stream_memory_size(st.m_objfile_image),
        error |-> "none", stream |-> st, calls |-> <<>>]

\* A plausible slip: the stream goes and its file stays open.
rocm_code_object_stream_file_leaked(st, tgt) == tgt

\* rocm_code_object_stream_file::~rocm_code_object_stream_file (): the
\* target after target_fileio_close (m_fd).
rocm_code_object_stream_file_delete(st, tgt) ==
  [tgt EXCEPT !.open_fds = @ \ {st.m_fd}, !.closed = Append(@, st.m_fd)]

\* delete of a stream of either kind: the target afterwards.
rocm_code_object_stream_delete(st, tgt) ==
  IF st.kind = "file" THEN rocm_code_object_stream_file_delete(st, tgt)
  ELSE tgt


-----------------------------------------------------------------------------
(* The state machine.                                                      *)

NoReport == [status |-> "none", list |-> <<>>]

\* The handles in a report whose two info queries both succeeded, in the
\* order of the report.
RECURSIVE Answered(_)
Answered(list) ==
  IF list = <<>> THEN <<>>
  ELSE IF Head(list).info = "ok"
       THEN <<Head(list).handle>> \o Answered(Tail(list))
       ELSE Answered(Tail(list))

\* The record of an operation: op, the inferior it ran for, the log of the
\* calls it made, whether it ended by an exception, the status of the
\* runtime's answer, the number of code objects in it and the handles it
\* answered for, the host list H, how many entries the registry held before,
\* and how many so_list nodes the operation left allocated and unreachable.
Event(op, inf, s, q, H, pre) ==
  [op |-> op, inf |-> inf, log |-> s.log, thrown |-> s.thrown,
   status |-> q.status, count |-> Len(q.list),
   answered |-> Answered(q.list), H |-> H, pre |-> pre,
   unreleased |-> s.leaked]

RegVals(inf) == IF info[inf] = NoInfo THEN <<>> ELSE ListVals(heap, info[inf])

HeldVals == IF held = NoList THEN <<>> ELSE ListVals(heap, held)

Now == [heap |-> heap, info |-> info, ops |-> rocm_ops_installed,
        leaked |-> 0, thrown |-> FALSE, log |-> <<>>]

\* What the runtime can answer for inferior inf: nothing is asked of it when
\* no amd-dbgapi process is attached.
Answers(inf) ==
  IF ~process_id[inf] THEN {NoReport}
  ELSE IF loaded = Handles THEN Reports
  ELSE ReportsOf(loaded)

Commit(s) ==
  /\ heap' = s.heap
  /\ info' = s.info
  /\ rocm_ops_installed' = s.ops

\* One inferior, no amd-dbgapi process attached, no registry; the runtime
\* knows the code objects hs.
CtlInitOf(hs) ==
  /\ alive = {1}
  /\ current_inferior = 1
  /\ process_id = [i \in Inferiors |-> FALSE]
  /\ heap = [a \in Addr |-> FreeCell]
  /\ info = [i \in Inferiors |-> NoInfo]
  /\ rocm_ops_installed = FALSE
  /\ held = NoList
  /\ ev = Event("init", 1, Now, NoReport, <<>>, 0)
  /\ loaded = hs

CtlInit == CtlInitOf(Handles)

NotParsed == [status |-> "none", error |-> "", protocol |-> <<>>,
              decoded_path |-> <<>>, offset |-> 0, size |-> 0]

NoDescriptor == [scheme |-> <<>>, spelling |-> <<>>, locator |-> <<>>,
                 escape |-> "", sep |-> 0, offset |-> 0, size |-> 0,
                 form |-> ""]

\* Addresses of the inferior's memory the model maps: 0 .. MemSize - 1.
MemSize == 4

\* The largest size and offset a read of a stream is called with.
MaxRead == 3

\* inferior->pid of the inferiors URIs are opened for.
Pids == {123, 124}

\* The memory of the inferior when the URI is opened, a different byte at
\* each address.
InitialMemory == [a \in 1 .. MemSize |-> 16 + a]

\* The largest length of the file behind a stream.
MaxFile == 4

\* What bfd finds in the bytes of a stream: whether they are an object of
\* the format asked for, and e_ident[EI_OSABI] and e_ident[EI_ABIVERSION].
NoImage == [format |-> FALSE, osabi |-> 0, osabiversion |-> 0]

\* The error rocm_solib_bfd_open throws: its text, the name of the file and
\* the value it gives.
Thrown(text, name, value) == [text |-> text, name |-> name, value |-> value]

NoMessage == Thrown("", <<>>, 0)

\* What the last operation on the bfd was and did: its return (status,
\* nbytes), the bfd error, the warnings, the message of an exception caught
\* or thrown, the calls on the target with the requests of a read and the
\* number of QUIT checks, the arguments it was given, and for a read of a
\* file in progress ("reading") the bytes left to read. For the open of a
\* solib: whether a stream was made, what bfd found in it, the error thrown
\* and what svr4_so_ops.bfd_open returned.
NoIo == [op |-> "none", status |-> "none", error |-> "none",
         warnings |-> <<>>, caught |-> "", calls |-> <<>>, size |-> 0,
         offset |-> 0, nbytes |-> 0, bytes |-> <<>>, outside |-> 0,
         filename |-> <<>>, flags |-> "", requests |-> <<>>, quits |-> 0,
         left |-> 0, before |-> "none", made |-> FALSE, image |-> NoImage,
         message |-> NoMessage, host |-> ""]

\* The target: the pid and the memory of the inferior, the length of the
\* file behind a file stream, the file descriptors that are open and the
\* ones target_fileio_close was called on, in order.
TargetOf(pid, len) ==
  [pid |-> pid, memory |-> InitialMemory, file_len |-> len, open_fds |-> {},
   closed |-> <<>>]

StreamInit(pid) ==
  /\ target = TargetOf(pid, MaxFile)
  /\ stream = NoStream
  /\ io = NoIo

Init ==
  /\ CtlInit
  /\ descriptor = NoDescriptor
  /\ uri = <<>>
  /\ parsed = NotParsed
  /\ StreamInit(123)

\* The inferior_created observer runs for the current inferior.
InferiorCreated ==
  \E q \in Answers(current_inferior) :
    LET s == rocm_solib_target_inferior_created(Now, current_inferior,
               current_inferior, process_id[current_inferior], q)
    IN  /\ Commit(s)
        /\ ev' = Event("inferior_created", current_inferior, s, q, <<>>,
                       Len(RegVals(current_inferior)))
        /\ UNCHANGED <<alive, current_inferior, process_id, held,
                       parsevars, loaded>>

\* The solib event breakpoint was hit; reached through rocm_solib_ops.
HandleEvent ==
  /\ rocm_ops_installed
  /\ \E q \in Answers(current_inferior) :
       LET s == rocm_solib_handle_event(Now, current_inferior,
                  process_id[current_inferior], q)
       IN  /\ Commit(s)
           /\ ev' = Event("handle_event", current_inferior, s, q, <<>>,
                          Len(RegVals(current_inferior)))
           /\ UNCHANGED <<alive, current_inferior, process_id, held,
                          parsevars, loaded>>

\* post_create_inferior calls the hook; reached through rocm_solib_ops.
CreateInferiorHook ==
  /\ rocm_ops_installed
  /\ LET s == rocm_solib_create_inferior_hook(Now, current_inferior)
     IN  /\ Commit(s)
         /\ ev' = Event("create_inferior_hook", current_inferior, s,
                        NoReport, <<>>, Len(RegVals(current_inferior)))
         /\ UNCHANGED <<alive, current_inferior, process_id, held,
                        parsevars, loaded>>

\* GDB core asks for the list of shared objects and keeps the answer.
CurrentSos ==
  /\ rocm_ops_installed
  /\ held = NoList
  /\ \E H \in HostLists :
       LET r == rocm_solib_current_sos(Now, current_inferior, H)
       IN  /\ Commit(r.st)
           /\ held' = r.head
           /\ ev' = Event("current_sos", current_inferior, r.st, NoReport,
                          H, Len(RegVals(current_inferior)))
           /\ UNCHANGED <<alive, current_inferior, process_id,
                          parsevars, loaded>>

Edited == [text |-> "edited", len |-> 6]

Quiet(op, inf) == ev' = Event(op, inf, Now, NoReport, <<>>, 0)

\* The holder of a returned list writes to one of its elements: the name, and
\* the load address through the element's lm_info.
CallerWrites ==
  /\ held \notin {NoList, 0}
  /\ \A j \in 1 .. Len(HeldVals) : HeldVals[j].so_name # Edited
  /\ \E i \in 1 .. Len(Nodes(heap, held)) :
       LET n == Nodes(heap, held)[i]
       IN  heap' = [heap EXCEPT ![n].so_name = Edited,
                                ![heap[n].lm_info].l_addr = 1]
  /\ Quiet("caller_writes", current_inferior)
  /\ UNCHANGED <<alive, current_inferior, process_id, info, rocm_ops_installed,
                 held, parsevars, loaded>>

\* The holder of a returned list releases it, free_so on every element.
CallerFrees ==
  /\ held # NoList
  /\ heap' = FreeFrom(heap, held)
  /\ held' = NoList
  /\ Quiet("caller_frees", current_inferior)
  /\ UNCHANGED <<alive, current_inferior, process_id, info, rocm_ops_installed,
                 parsevars, loaded>>

\* amd-dbgapi attaches to, or detaches from, the process of an inferior.
RuntimeAttaches ==
  \E i \in alive :
    /\ ~process_id[i]
    /\ process_id' = [process_id EXCEPT ![i] = TRUE]
    /\ Quiet("runtime", i)
    /\ UNCHANGED <<alive, current_inferior, heap, info, rocm_ops_installed,
                   held, parsevars, loaded>>

RuntimeDetaches ==
  \E i \in alive :
    /\ process_id[i]
    /\ process_id' = [process_id EXCEPT ![i] = FALSE]
    /\ Quiet("runtime", i)
    /\ UNCHANGED <<alive, current_inferior, heap, info, rocm_ops_installed,
                   held, parsevars, loaded>>

SwitchInferior ==
  \E i \in alive \ {current_inferior} :
    /\ current_inferior' = i
    /\ Quiet("switch", i)
    /\ UNCHANGED <<alive, process_id, heap, info, rocm_ops_installed, held,
                   parsevars, loaded>>

AddInferior ==
  \E i \in Inferiors \ alive :
    /\ alive' = alive \cup {i}
    /\ Quiet("add_inferior", i)
    /\ UNCHANGED <<current_inferior, process_id, heap, info,
                   rocm_ops_installed, held, parsevars, loaded>>

\* An inferior other than the current one is deleted: its registry data is
\* destroyed with it.
InferiorDestroyed ==
  \E i \in alive \ {current_inferior} :
    LET s == solib_info_delete(Now, i)
    IN  /\ Commit(s)
        /\ alive' = alive \ {i}
        /\ process_id' = [process_id EXCEPT ![i] = FALSE]
        /\ ev' = Event("inferior_destroyed", i, s, NoReport, <<>>,
                       Len(RegVals(i)))
        /\ UNCHANGED <<current_inferior, held, parsevars, loaded>>

\* One inferior, the events that reach it and the caller of current_sos.
Next ==
  \/ InferiorCreated
  \/ HandleEvent
  \/ CreateInferiorHook
  \/ CurrentSos
  \/ CallerWrites
  \/ CallerFrees
  \/ RuntimeAttaches
  \/ RuntimeDetaches

Spec == Init /\ [][Next]_vars

\* Several inferiors, created, switched to and destroyed, and their events.
NextInferiors ==
  \/ InferiorCreated
  \/ HandleEvent
  \/ CreateInferiorHook
  \/ RuntimeAttaches
  \/ RuntimeDetaches
  \/ SwitchInferior
  \/ AddInferior
  \/ InferiorDestroyed

SpecInferiors == Init /\ [][NextInferiors]_vars

\* The handle of a code object whose URI does not fit in so_name.
LongHandle == 3

\* The refreshes of the registry of one inferior when one of the code
\* objects the runtime knows has a URI of SO_NAME_MAX_PATH_SIZE bytes or more.
RefreshInit ==
  /\ CtlInitOf(Handles \cup {LongHandle})
  /\ descriptor = NoDescriptor
  /\ uri = <<>>
  /\ parsed = NotParsed
  /\ StreamInit(123)

NextRefresh ==
  \/ InferiorCreated
  \/ HandleEvent
  \/ CreateInferiorHook
  \/ RuntimeAttaches
  \/ RuntimeDetaches

SpecRefresh == RefreshInit /\ [][NextRefresh]_vars

-----------------------------------------------------------------------------
(* Opening URIs: the descriptors URIs are written from, and the machine    *)
(* that hands one URI to rocm_bfd_iovec_open.                              *)

\* The decimal and the 0x / 0X literal of n.
RECURSIVE DigitsOf(_, _, _)
DigitsOf(n, base, upper) ==
  LET d == n % base
      c == IF d < 10 THEN 48 + d ELSE IF upper THEN 55 + d ELSE 87 + d
  IN  IF n < base THEN <<c>> ELSE Append(DigitsOf(n \div base, base, upper), c)

Literal(n, form) ==
  IF form = "dec" THEN DigitsOf(n, 10, FALSE)
  ELSE IF form = "0x" THEN <<48, 120>> \o DigitsOf(n, 16, FALSE)
  ELSE <<48, 88>> \o DigitsOf(n, 16, TRUE)

\* The two-digit escape of byte c.
Escape(c, upper) ==
  <<37>> \o (IF c < 16 THEN <<48>> ELSE <<>>) \o DigitsOf(c, 16, upper)

\* A locator written into a URI: "reserved" escapes '%', '?' and '#' alone,
\* "all" escapes every byte.
RECURSIVE Encode(_, _)
Encode(p, escape) ==
  IF p = <<>> THEN <<>>
  ELSE (IF escape = "all" THEN Escape(Head(p), FALSE)
        ELSE IF Head(p) \in {37, 63, 35} THEN Escape(Head(p), TRUE)
        ELSE <<Head(p)>>)
       \o Encode(Tail(p), escape)

\* scheme://locator?offset=o&size=s, or with '#' for '?'.
Format(d) ==
  d.spelling \o <<58, 47, 47>> \o Encode(d.locator, d.escape) \o <<d.sep>>
  \o Bytes(<<"o", "f", "f", "s", "e", "t", "=">>) \o Literal(d.offset, d.form)
  \o Bytes(<<"&", "s", "i", "z", "e", "=">>) \o Literal(d.size, d.form)

Spellings ==
  { [scheme |-> File, spelling |-> File],
    [scheme |-> File, spelling |-> Bytes(<<"F", "I", "L", "E">>)],
    [scheme |-> File, spelling |-> Bytes(<<"F", "i", "l", "E">>)],
    [scheme |-> Memory, spelling |-> Memory],
    [scheme |-> Memory, spelling |-> Bytes(<<"M", "e", "m", "o", "r", "y">>)] }

Locators ==
  { <<>>,
    Bytes(<<"/", "a", ".", "s", "o">>),
    Bytes(<<"a", " ", "b">>),
    Bytes(<<"a", "?">>),
    Bytes(<<"#">>),
    Bytes(<<"%">>),
    Bytes(<<"%", "4", "1">>),
    Bytes(<<"1", "2", "3">>) }

WellFormed ==
  { [scheme |-> sp.scheme, spelling |-> sp.spelling, locator |-> p,
     escape |-> e, sep |-> c, offset |-> o, size |-> s, form |-> f] :
      sp \in Spellings, p \in Locators, e \in {"reserved", "all"},
      c \in {63, 35}, o \in {0, 10, 4096}, s \in {1, 64},
      f \in {"dec", "0x", "0X"} }

ParseInit ==
  /\ CtlInit
  /\ descriptor \in WellFormed
  /\ uri = Format(descriptor)
  /\ parsed = NotParsed
  /\ StreamInit(123)

\* What target_fileio_open returns: -1, or a file descriptor of the target.
Fds == {-1, 3}

\* The program ended inside rocm_bfd_iovec_open.
Aborted == [NotParsed EXCEPT !.status = "abort"]

\* gdb_bfd_openr_iovec calls rocm_bfd_iovec_open on the name of the bfd, for
\* the inferior of pid target.pid; the stream it returns is kept in the bfd.
IovecOpen ==
  /\ parsed.status = "none"
  /\ \E fd \in Fds, fault \in BOOLEAN, view \in ViewReads(uri) :
       \E o \in {rocm_bfd_iovec_open(uri, target.pid, target.memory, fd,
                                     fault)} :
           IF view = "assertion"
           THEN /\ parsed' = Aborted
                /\ stream' = NoStream
                /\ io' = [NoIo EXCEPT !.op = "open", !.status = "abort"]
           ELSE /\ parsed' = ParseUri(uri)
                /\ stream' = o.stream
                /\ io' = [NoIo EXCEPT
                            !.op = "open",
                            !.status = IF o.stream.kind = "none" THEN "null"
                                       ELSE "stream",
                            !.error = o.error,
                            !.warnings = o.warnings,
                            !.caught = o.caught,
                            !.calls = o.calls,
                            !.filename = o.filename,
                            !.flags = o.flags]
  /\ target' = IF stream'.kind = "file"
               THEN [target EXCEPT !.open_fds = @ \cup {stream'.m_fd}]
               ELSE target
  /\ UNCHANGED <<alive, current_inferior, process_id, heap, info,
                 rocm_ops_installed, held, ev, descriptor, uri, loaded>>

NextParse == IovecOpen

SpecParse == ParseInit /\ [][NextParse]_vars

-----------------------------------------------------------------------------
(* URIs as they may arrive, well formed or not, and the machine that opens *)
(* one for an inferior and reads the stream behind the bfd.                *)

OffsetKey == Bytes(<<"o", "f", "f", "s", "e", "t">>)

SizeKey == Bytes(<<"s", "i", "z", "e">>)

\* tag=text in a query, with what text is as an unsigned integer literal:
\* whether it is one, and its value.
Token(tag, text, valid, value) ==
  [tag |-> tag, text |-> text, valid |-> valid, value |-> value]

\* The schemes as spelled, with the protocol each names ("" for none).
Schemes ==
  { [spelling |-> File, names |-> "file"],
    [spelling |-> Memory, names |-> "memory"],
    [spelling |-> Bytes(<<"M", "e", "m", "o", "r", "y">>), names |-> "memory"],
    [spelling |-> Bytes(<<"f", "t", "p">>), names |-> ""],
    [spelling |-> Bytes(<<"F", "I", "L", "E", "S">>), names |-> ""] }

\* The paths as written, with the locator each encodes and, for the paths
\* that are a number, the number.
Paths ==
  { [raw |-> Bytes(<<"/", "a", ".", "s", "o">>),
     locator |-> Bytes(<<"/", "a", ".", "s", "o">>), numeric |-> FALSE,
     number |-> 0],
    [raw |-> Bytes(<<"%">>), locator |-> Bytes(<<"%">>), numeric |-> FALSE,
     number |-> 0],
    [raw |-> Bytes(<<"%", "4">>), locator |-> Bytes(<<"%", "4">>),
     numeric |-> FALSE, number |-> 0],
    [raw |-> Bytes(<<"a", "%">>), locator |-> Bytes(<<"a", "%">>),
     numeric |-> FALSE, number |-> 0],
    [raw |-> Bytes(<<"%", "z", "z">>), locator |-> Bytes(<<"%", "z", "z">>),
     numeric |-> FALSE, number |-> 0],
    [raw |-> Bytes(<<"%", "4", "1">>), locator |-> Bytes(<<"A">>),
     numeric |-> FALSE, number |-> 0],
    [raw |-> Bytes(<<"a", "%", "2", "F">>), locator |-> Bytes(<<"a", "/">>),
     numeric |-> FALSE, number |-> 0],
    [raw |-> Bytes(<<"%", "4", "%", "4", "1">>),
     locator |-> Bytes(<<"%", "4", "A">>), numeric |-> FALSE, number |-> 0],
    [raw |-> Bytes(<<"a", "%", "0", "0", "b">>), locator |-> <<97, 0, 98>>,
     numeric |-> FALSE, number |-> 0],
    [raw |-> Bytes(<<"1", "2", "3">>), locator |-> Bytes(<<"1", "2", "3">>),
     numeric |-> TRUE, number |-> 123] }

Offset(text, valid, value) == Token(OffsetKey, Bytes(text), valid, value)

Size(text, valid, value) == Token(SizeKey, Bytes(text), valid, value)

\* The queries and fragments as written: the separator and the tokens.
Queries ==
  { [sep |-> 63, tokens |-> <<>>],
    [sep |-> 63, tokens |-> <<Offset(<<"1">>, TRUE, 1),
                              Size(<<"2">>, TRUE, 2)>>],
    [sep |-> 35, tokens |-> <<Offset(<<"0", "x", "2">>, TRUE, 2),
                              Size(<<"3">>, TRUE, 3)>>],
    [sep |-> 35, tokens |-> <<Size(<<"0">>, TRUE, 0)>>],
    [sep |-> 63, tokens |-> <<Size(<<"0", "x", "0">>, TRUE, 0)>>],
    [sep |-> 63, tokens |-> <<Offset(<<"1">>, TRUE, 1)>>],
    [sep |-> 35, tokens |-> <<Size(<<"2">>, TRUE, 2)>>],
    [sep |-> 63, tokens |-> <<Size(<<"2">>, TRUE, 2),
                              Size(<<"0">>, TRUE, 0)>>],
    [sep |-> 63, tokens |-> <<Size(<<"0">>, TRUE, 0),
                              Size(<<"2">>, TRUE, 2)>>],
    [sep |-> 35, tokens |-> <<Offset(<<"1">>, TRUE, 1),
                              Offset(<<"3">>, TRUE, 3),
                              Size(<<"2">>, TRUE, 2)>>],
    [sep |-> 63, tokens |-> <<Offset(<<"z", "z">>, FALSE, 0),
                              Size(<<"2">>, TRUE, 2)>>],
    [sep |-> 63, tokens |-> <<Offset(<<"1", "x", "y", "z">>, FALSE, 0),
                              Size(<<"2">>, TRUE, 2)>>],
    [sep |-> 63, tokens |-> <<Offset(<<>>, FALSE, 0),
                              Size(<<"2">>, TRUE, 2)>>],
    [sep |-> 35, tokens |-> <<Size(<<"x">>, FALSE, 0)>>] }

Descriptors ==
  { [scheme |-> s, path |-> p, query |-> q] :
      s \in Schemes, p \in Paths, q \in Queries }

RECURSIVE Join(_)
Join(tokens) ==
  IF tokens = <<>> THEN <<>>
  ELSE Head(tokens).tag \o <<61>> \o Head(tokens).text
       \o (IF Len(tokens) > 1 THEN <<38>> ELSE <<>>) \o Join(Tail(tokens))

\* The URI of descriptor d.
Write(d) ==
  d.scheme.spelling \o <<58, 47, 47>> \o d.path.raw
  \o (IF d.query.tokens = <<>> THEN <<>>
      ELSE <<d.query.sep>> \o Join(d.query.tokens))

OpenInit ==
  /\ CtlInit
  /\ descriptor \in Descriptors
  /\ uri = Write(descriptor)
  /\ parsed = NotParsed
  /\ \E pid \in Pids : StreamInit(pid)

\* What lies outside the image where a read of the stream reaches.
Junk == {0, 255}

\* rocm_bfd_iovec_pread on a stream in memory: bfd asks for size bytes at
\* offset. A copy from outside the image gets what lies there, or ends the
\* program on an address that is not mapped.
IovecPread ==
  /\ stream.kind = "memory"
  /\ \E size \in 0 .. MaxRead, offset \in 0 .. MaxRead, junk \in Junk,
        segv \in BOOLEAN :
       LET r == rocm_code_object_stream_memory_read(stream.m_objfile_image,
                                                    size, offset, junk)
       IN  io' = IF r.outside > 0 /\ segv
                 THEN [NoIo EXCEPT !.op = "pread", !.status = "abort",
                                   !.size = size, !.offset = offset]
                 ELSE [NoIo EXCEPT !.op = "pread", !.status = "read",
                                   !.size = size, !.offset = offset,
                                   !.nbytes = r.nbytes, !.bytes = r.bytes,
                                   !.outside = r.outside]
  /\ UNCHANGED <<alive, current_inferior, process_id, heap, info,
                 rocm_ops_installed, held, ev, descriptor, uri, parsed,
                 target, stream, loaded>>

\* The inferior releases or reuses a byte of its memory while the bfd is
\* open.
TargetWrites ==
  /\ stream.kind = "memory"
  /\ \E a \in 1 .. MemSize :
       /\ target.memory[a] # 0
       /\ target' = [target EXCEPT !.memory[a] = 0]
  /\ io' = [NoIo EXCEPT !.op = "target_writes"]
  /\ UNCHANGED <<alive, current_inferior, process_id, heap, info,
                 rocm_ops_installed, held, ev, descriptor, uri, parsed,
                 stream, loaded>>

NextOpen ==
  \/ IovecOpen
  \/ IovecPread
  \/ TargetWrites

SpecOpen == OpenInit /\ [][NextOpen]_vars

-----------------------------------------------------------------------------
(* The machine that opens a well formed URI over a file of some length and *)
(* asks the stream for its size, reads it and closes it, while the file on *)
(* the target may grow or shrink.                                          *)

\* The queries whose values are all literals above zero, each key once.
FileQueries ==
  { q \in Queries :
      /\ \A i \in 1 .. Len(q.tokens) :
           q.tokens[i].valid /\ q.tokens[i].value > 0
      /\ \A i, j \in 1 .. Len(q.tokens) :
           i # j => q.tokens[i].tag # q.tokens[j].tag }

FileDescriptors ==
  { d \in Descriptors :
      /\ \/ /\ d.scheme.spelling = File
            /\ d.path.raw = Bytes(<<"/", "a", ".", "s", "o">>)
         \/ /\ d.scheme.spelling = Memory
            /\ d.path.raw = Bytes(<<"1", "2", "3">>)
      /\ d.query \in FileQueries }

FileInit ==
  /\ CtlInit
  /\ descriptor \in FileDescriptors
  /\ uri = Write(descriptor)
  /\ parsed = NotParsed
  /\ \E len \in 0 .. MaxFile : target = TargetOf(123, len)
  /\ stream = NoStream
  /\ io = NoIo

\* rocm_bfd_iovec_stat on the stream of the bfd.
IovecStat ==
  /\ stream.kind # "none"
  /\ io.status # "reading"
  /\ \E fstat_fails \in BOOLEAN :
       LET r == rocm_code_object_stream_stat(stream, target.file_len,
                                             fstat_fails)
       IN  /\ stream' = r.stream
           /\ io' = [NoIo EXCEPT
                       !.op = "stat",
                       !.status = IF r.ret = -1 THEN "fail" ELSE "ok",
                       !.nbytes = r.ret,
                       !.error = r.error,
                       !.calls = r.calls]
  /\ UNCHANGED <<alive, current_inferior, process_id, heap, info,
                 rocm_ops_installed, held, ev, descriptor, uri, parsed,
                 target, loaded>>

\* rocm_bfd_iovec_pread on a stream over a file: bfd asks for size bytes at
\* offset, and read enters its loop.
IovecPreadFile ==
  /\ stream.kind = "file"
  /\ io.status # "reading"
  /\ \E size \in 0 .. MaxRead, offset \in 0 .. MaxRead :
       LET l == rocm_code_object_stream_file_read(size, offset)
       IN  io' = [NoIo EXCEPT !.op = "pread", !.status = l.status,
                              !.size = size, !.offset = offset,
                              !.left = l.left, !.nbytes = l.nbytes]
  /\ UNCHANGED <<alive, current_inferior, process_id, heap, info,
                 rocm_ops_installed, held, ev, descriptor, uri, parsed,
                 target, stream, loaded>>

\* The loop of the read in progress takes a turn.
FileReadTurn ==
  /\ stream.kind = "file"
  /\ io.status = "reading"
  /\ \E turn \in Turns :
       LET l == file_read_turn(stream, target.file_len, io.offset,
                               [status |-> io.status, left |-> io.left,
                                nbytes |-> io.nbytes, error |-> io.error,
                                requests |-> io.requests,
                                quits |-> io.quits], turn)
       IN  io' = [io EXCEPT !.status = l.status, !.left = l.left,
                            !.nbytes = l.nbytes, !.error = l.error,
                            !.requests = l.requests, !.quits = l.quits]
  /\ UNCHANGED <<alive, current_inferior, process_id, heap, info,
                 rocm_ops_installed, held, ev, descriptor, uri, parsed,
                 target, stream, loaded>>

\* rocm_bfd_iovec_close: the bfd is closed and its stream deleted.
IovecClose ==
  /\ stream.kind # "none"
  /\ io.status # "reading"
  /\ target' = rocm_code_object_stream_delete(stream, target)
  /\ stream' = NoStream
  /\ io' = [NoIo EXCEPT !.op = "close", !.status = "closed",
                        !.before = io.status,
                        !.calls = IF stream.kind = "file"
                                  THEN <<"target_fileio_close">> ELSE <<>>]
  /\ UNCHANGED <<alive, current_inferior, process_id, heap, info,
                 rocm_ops_installed, held, ev, descriptor, uri, parsed,
                 loaded>>

\* The file behind the stream grows or shrinks on the target.
TargetFileChanges ==
  /\ stream.kind = "file"
  /\ \E len \in 0 .. MaxFile :
       /\ len # target.file_len
       /\ target' = [target EXCEPT !.file_len = len]
  /\ UNCHANGED <<alive, current_inferior, process_id, heap, info,
                 rocm_ops_installed, held, ev, descriptor, uri, parsed,
                 stream, io, loaded>>

NextFile ==
  \/ IovecOpen
  \/ IovecStat
  \/ IovecPread
  \/ IovecPreadFile
  \/ FileReadTurn
  \/ IovecClose
  \/ TargetFileChanges

SpecFile == FileInit /\ [][NextFile]_vars

\* The loop of a read runs on gdb's one thread, in the call of read: a turn
\* that can be taken is taken.
SpecFileLive == SpecFile /\ WF_vars(FileReadTurn)

-----------------------------------------------------------------------------
(* The machine that opens the bfd of a solib by its name, a URI or the     *)
(* path of a file, and closes it.                                          *)

ELFOSABI_AMDGPU_HSA == 64

ELFABIVERSION_AMDGPU_HSA_V3 == 1

\* A plausible slip: any name with a colon is taken for a URI.
has_marker_colon(pathname) == find(pathname, Bytes(<<":">>), 0) # npos

\* strstr (pathname, "://") != nullptr.
has_marker(pathname) == find(pathname, Bytes(<<":", "/", "/">>), 0) # npos

\* What rocm_solib_bfd_open does with what gdb_bfd_openr_iovec returned,
\* a bfd on a stream (made) or nullptr: the error it throws, or none.
rocm_solib_bfd_open_checks(pathname, made, image) ==
  IF ~made
  THEN Thrown("Could not open as an executable file", pathname, 0)
  ELSE IF ~image.format
  THEN Thrown("not in executable format", pathname, 0)
  ELSE IF image.osabi # ELFOSABI_AMDGPU_HSA
  THEN Thrown("ELF file OS ABI is not supported", pathname, image.osabi)
  ELSE IF image.osabiversion < ELFABIVERSION_AMDGPU_HSA_V3
  THEN Thrown("ELF file HSA OS ABI version is not supported", pathname,
              image.osabiversion)
  ELSE NoMessage

\* What bfd may find in the bytes of a stream.
Images ==
  [format : BOOLEAN, osabi : {0, ELFOSABI_AMDGPU_HSA},
   osabiversion : 0 .. ELFABIVERSION_AMDGPU_HSA_V3 + 1]

\* Names of files that are no URI.
PlainNames ==
  { Bytes(<<"/", "a", ".", "s", "o">>),
    Bytes(<<"f", "i", "l", "e", ":", "/", "a", ".", "s", "o">>),
    Bytes(<<"m", "e", "m", "o", "r", "y", ":", "1", "2", "3", "?", "s", "i",
            "z", "e", "=", "2">>),
    Bytes(<<"/", "/", "a", ":">>) }

\* The descriptor of a name that is the path of a file.
Plain(name) ==
  [scheme |-> [spelling |-> <<>>, names |-> "none"],
   path |-> [raw |-> name, locator |-> name, numeric |-> FALSE, number |-> 0],
   query |-> [sep |-> 0, tokens |-> <<>>]]

BfdOpenInit ==
  /\ CtlInit
  /\ \/ descriptor \in Descriptors /\ uri = Write(descriptor)
     \/ \E name \in PlainNames : descriptor = Plain(name) /\ uri = name
  /\ parsed = NotParsed
  /\ \E pid \in Pids : StreamInit(pid)

\* rocm_solib_bfd_open (pathname) for the current inferior. A name without
\* "://" goes to svr4_so_ops.bfd_open, which returns a bfd or throws. For a
\* URI gdb_bfd_openr_iovec calls rocm_bfd_iovec_open, bfd reads the stream,
\* and an error thrown after that drops the last reference to the bfd,
\* which closes it and deletes the stream.
SolibBfdOpen ==
  /\ parsed.status = "none"
  /\ io.op = "none"
  /\ IF ~has_marker(uri)
     THEN /\ \E host \in {"bfd", "error"} :
               io' = [NoIo EXCEPT !.op = "bfd_open", !.status = "host",
                                  !.host = host, !.filename = uri,
                                  !.calls = <<"svr4_so_ops.bfd_open">>]
          /\ UNCHANGED <<parsed, stream, target>>
     ELSE \E fd \in Fds, fault \in BOOLEAN, view \in ViewReads(uri) :
          \E o \in {rocm_bfd_iovec_open(uri, target.pid, target.memory, fd,
                                        fault)}, image \in Images :
            LET made == o.stream.kind # "none"
                thrown == rocm_solib_bfd_open_checks(uri, made, image)
                opened == IF o.stream.kind = "file"
                          THEN [target EXCEPT
                                  !.open_fds = @ \cup {o.stream.m_fd}]
                          ELSE target
            IN  IF view = "assertion"
                THEN /\ parsed' = Aborted
                     /\ stream' = NoStream
                     /\ target' = target
                     /\ io' = [NoIo EXCEPT !.op = "bfd_open",
                                           !.status = "abort"]
                ELSE /\ parsed' = ParseUri(uri)
                     /\ stream' = IF thrown = NoMessage THEN o.stream
                                  ELSE NoStream
                     /\ target' = IF thrown = NoMessage THEN opened
                                  ELSE rocm_code_object_stream_delete(
                                         o.stream, opened)
                     /\ io' = [NoIo EXCEPT
                                 !.op = "bfd_open",
                                 !.status = IF thrown = NoMessage
                                            THEN "image" ELSE "error",
                                 !.error = o.error,
                                 !.warnings = o.warnings,
                                 !.caught = o.caught,
                                 !.calls = <<"gdb_bfd_openr_iovec">>
                                           \o o.calls,
                                 !.filename = o.filename,
                                 !.flags = o.flags,
                                 !.made = made,
                                 !.image = IF made THEN image ELSE NoImage,
                                 !.message = thrown]
  /\ UNCHANGED <<alive, current_inferior, process_id, heap, info,
                 rocm_ops_installed, held, ev, descriptor, uri, loaded>>

NextBfdOpen ==
  \/ SolibBfdOpen
  \/ IovecClose

SpecBfdOpen == BfdOpenInit /\ [][NextBfdOpen]_vars

-----------------------------------------------------------------------------
(* Properties of the registry, the merged list and the event handlers.     *)

\* What a reader sees of the nodes svr4_so_ops.current_sos makes of H.
HostVals(H) ==
  [i \in 1 .. Len(H) |->
     [so_name |-> [text |-> H[i], len |-> 7], so_original_name |-> H[i],
      l_addr |-> 0, live |-> TRUE]]

\* What a reader sees of the entries the loop makes for the handles hs.
DeviceVals(hs) ==
  [i \in 1 .. Len(hs) |->
     [so_name |-> strncpy_so_name(UriOf(hs[i])),
      so_original_name |-> "code_object_" \o ToString(hs[i]),
      l_addr |-> LoadAddrOf(hs[i]), live |-> TRUE]]

Refreshes == {"handle_event", "inferior_created"}

Handlers == Refreshes \cup {"create_inferior_hook"}

Positions(log, what) == {i \in 1 .. Len(log) : log[i] = what}

HostCalls(log) ==
  {i \in 1 .. Len(log) :
     log[i] \in {"svr4.handle_event", "svr4.solib_create_inferior_hook"}}

RegistryCalls(log) ==
  {i \in 1 .. Len(log) : log[i] \in {"free_list", "code_object_list"}}

\* C1: the list rocm_solib_current_sos returns is the host's list, in the
\* host's order, followed by the registry's entries in the registry's order.
C1_HostThenRegistry ==
  ev.op = "current_sos" =>
    HeldVals = HostVals(ev.H) \o RegVals(ev.inf)

C1_Witness ==
  /\ ev.op = "current_sos"
  /\ Len(ev.H) = 2
  /\ Len(RegVals(ev.inf)) = 2
  /\ RegVals(ev.inf)[1].so_original_name = "code_object_2"

\* C2: right after a refresh in which the runtime reported zero code objects,
\* the registry is empty and rocm_solib_current_sos returns the host's list
\* and nothing else, whatever the registry held before the refresh.
C2_ZeroReportLeavesHostList ==
  (ev.op \in Refreshes /\ ev.status = "ok" /\ ev.count = 0) =>
    /\ RegVals(ev.inf) = <<>>
    /\ \A H \in HostLists :
         LET r == rocm_solib_current_sos(Now, ev.inf, H)
         IN  ListVals(r.st.heap, r.head) = HostVals(H)

C2_Witness ==
  /\ ev.op = "handle_event"
  /\ ev.status = "ok"
  /\ ev.count = 0
  /\ ev.pre = 2

C4_HostAlwaysFirst ==
  ev.op \in Handlers =>
    /\ HostCalls(ev.log) # {}
    /\ \A i \in HostCalls(ev.log), j \in RegistryCalls(ev.log) : i < j

\* C4 as amended: rocm_solib_handle_event calls the host's handler before it
\* clears or rebuilds the registry; rocm_solib_create_inferior_hook clears
\* the registry and then calls the host's hook, and rebuilds nothing; the
\* inferior_created observer calls no host handler: it clears and rebuilds
\* the registry and then has the list of shared objects reloaded.
C4_OrderPerHandler ==
  /\ ev.op = "handle_event" =>
       /\ HostCalls(ev.log) = {1}
       /\ \A j \in RegistryCalls(ev.log) : 1 < j
  /\ ev.op = "create_inferior_hook" =>
       ev.log = <<"free_list", "svr4.solib_create_inferior_hook">>
  /\ ev.op = "inferior_created" =>
       /\ HostCalls(ev.log) = {}
       /\ ev.log[1] = "free_list"
       /\ \A j \in RegistryCalls(ev.log) : j < Len(ev.log) - 1
       /\ SubSeq(ev.log, Len(ev.log) - 1, Len(ev.log))
            = <<"clear_solib_cache", "solib_add">>

C4_Witness ==
  /\ ev.op = "handle_event"
  /\ ev.status = "ok"
  /\ ev.pre > 0
  /\ RegVals(ev.inf) # <<>>

\* C5: after the create-inferior hook or the inferior_created observer the
\* registry holds nothing but what the runtime answered in that very event;
\* with no amd-dbgapi process attached it is empty, the runtime was not
\* queried, nothing was reported as a warning or an error, and the ROCm
\* operations were not installed by the event.
C5_CreationClears ==
  ev.op \in {"create_inferior_hook", "inferior_created"} =>
    /\ RegVals(ev.inf) =
         (IF ev.status = "ok" THEN DeviceVals(ev.answered) ELSE <<>>)
    /\ ~process_id[ev.inf] =>
         /\ RegVals(ev.inf) = <<>>
         /\ info[ev.inf] = 0
         /\ Positions(ev.log, "code_object_list") = {}
         /\ Positions(ev.log, "warning") = {}
         /\ Positions(ev.log, "error") = {}
         /\ Positions(ev.log, "set_gdbarch_so_ops") = {}
         /\ ~ev.thrown

C5_Witness ==
  /\ ev.op = "create_inferior_hook"
  /\ ev.pre = 2
  /\ ~process_id[ev.inf]

\* C6: when an inferior is destroyed, every so_list node its registry owned
\* has been released.
C6_EntriesReleased ==
  ev.op = "inferior_destroyed" => ev.unreleased = 0

RegNodes(inf) == IF info[inf] = NoInfo THEN <<>> ELSE Nodes(heap, info[inf])

CodeObjectNames == {"code_object_" \o ToString(h) : h \in Handles}

\* C7: a write to an element of a returned list, or the release of the list,
\* changes no registry: the same nodes in the same order, each with the name,
\* unique name and load address it had.
C7_ReturnedListIsACopy ==
  [][ev'.op \in {"caller_writes", "caller_frees"} =>
       \A i \in Inferiors :
         /\ RegNodes(i)' = RegNodes(i)
         /\ RegVals(i)' = RegVals(i)]_vars

C7_Witness ==
  /\ ev.op = "caller_writes"
  /\ RegVals(ev.inf) # <<>>
  /\ \E j \in 1 .. Len(HeldVals) :
       /\ HeldVals[j].so_name = Edited
       /\ HeldVals[j].so_original_name \in CodeObjectNames

\* C8: while a returned list is held, no refresh, create-inferior hook,
\* failed query or change of the runtime changes what its elements read as.
C8_ReturnedListIsFrozen ==
  [][(held # NoList /\ ev'.op \in Handlers \cup {"runtime"}) =>
       (held' = held /\ HeldVals' = HeldVals)]_vars

C8_Witness ==
  /\ ev.op = "handle_event"
  /\ ev.pre = 2
  /\ ev.status = "fail"
  /\ \E j \in 1 .. Len(HeldVals) :
       HeldVals[j].so_original_name \in CodeObjectNames

\* C9: two entries of a registry with the same name and different load
\* addresses have different unique names.
C9_UniqueNames ==
  \A inf \in Inferiors :
    \A i, j \in 1 .. Len(RegVals(inf)) :
      (/\ RegVals(inf)[i].so_name = RegVals(inf)[j].so_name
       /\ RegVals(inf)[i].l_addr # RegVals(inf)[j].l_addr)
      => RegVals(inf)[i].so_original_name # RegVals(inf)[j].so_original_name

C9_Witness ==
  \E inf \in Inferiors :
    /\ Len(RegVals(inf)) = 2
    /\ RegVals(inf)[1].so_name = RegVals(inf)[2].so_name
    /\ RegVals(inf)[1].l_addr # RegVals(inf)[2].l_addr

-----------------------------------------------------------------------------
(* Properties of the URI parser.                                           *)

\* C10: from scheme://p?offset=o&size=s with s > 0, p written with escapes,
\* rocm_bfd_iovec_open gets the scheme in lower case, p decoded, o and s; and
\* it gets the same from the URI with the scheme spelled in lower case.
C10_ParseRecovers ==
  parsed.status # "none" =>
    /\ parsed.status = "ok"
    /\ parsed.protocol = descriptor.scheme
    /\ parsed.decoded_path = descriptor.locator
    /\ parsed.offset = descriptor.offset
    /\ parsed.size = descriptor.size
    /\ parsed = ParseUri(Format([descriptor EXCEPT !.spelling = descriptor.scheme]))

C10_Witness ==
  /\ parsed.status = "ok"
  /\ descriptor.spelling # descriptor.scheme
  /\ descriptor.locator = Bytes(<<"a", "?">>)
  /\ descriptor.escape = "reserved"
  /\ descriptor.form = "0x"
  /\ parsed.offset = 4096

-----------------------------------------------------------------------------
(* Properties of rocm_bfd_iovec_open on URIs of any form, and of the       *)
(* stream in memory.                                                       *)

\* The query of the descriptor has a token with this key.
HasKey(key) ==
  \E k \in 1 .. Len(descriptor.query.tokens) :
    descriptor.query.tokens[k].tag = key

\* The leftmost token with this key.
FirstToken(key) ==
  LET toks == descriptor.query.tokens
      k    == CHOOSE i \in 1 .. Len(toks) :
                /\ toks[i].tag = key
                /\ \A j \in 1 .. i - 1 : toks[j].tag # key
  IN  toks[k]

\* The number the descriptor gives for this key, 0 without the key.
Declared(key) == IF HasKey(key) THEN FirstToken(key).value ELSE 0

\* Every value the descriptor gives for offset and size is a literal.
LiteralsValid ==
  \A key \in {OffsetKey, SizeKey} : HasKey(key) => FirstToken(key).valid

ExplicitZeroSize ==
  HasKey(SizeKey) /\ FirstToken(SizeKey).valid /\ FirstToken(SizeKey).value = 0

\* rocm_bfd_iovec_open was called and returned.
OpenReturned == io.op = "open" /\ io.status # "abort"

Min(a, b) == IF a < b THEN a ELSE b

\* C11: the path is decoded to the locator it encodes, every %XX replaced by
\* its byte and every other '%' kept, and decoding is never an error.
C11_PercentDecoding ==
  io.op = "open" =>
    /\ io.status # "abort"
    /\ parsed.decoded_path = descriptor.path.locator

\* C12 as claimed: a scheme that is neither file nor memory always fails as
\* an unsupported protocol, with the warning and without a stream.
C12_UnknownSchemeUnsupported ==
  (OpenReturned /\ descriptor.scheme.names = "") =>
    /\ io.status = "null"
    /\ stream.kind = "none"
    /\ io.warnings = <<"protocol not supported">>

\* C12: for a scheme that is neither file nor memory in any case of letters
\* rocm_bfd_iovec_open makes no stream and touches neither file nor memory
\* of the target; when offset and size have parsed it reaches the dispatch
\* and fails with the warning of the unsupported protocol and
\* bfd_error_bad_value, and when they have not the error of the parse is
\* caught before the protocol is looked at and nothing is said.
C12_UnsupportedAfterParse ==
  (io.op = "open" /\ descriptor.scheme.names = "") =>
    /\ stream.kind = "none"
    /\ io.calls = <<>>
    /\ parsed.status = "ok" =>
         /\ io.status = "null"
         /\ io.error = "bad_value"
         /\ io.warnings = <<"protocol not supported">>
         /\ io.caught = ""
    /\ parsed.status = "error" =>
         /\ io.status = "null"
         /\ io.error = "bad_value"
         /\ io.warnings = <<>>
         /\ io.caught = parsed.error

C12_Witness ==
  /\ OpenReturned
  /\ descriptor.scheme.spelling = Bytes(<<"F", "I", "L", "E", "S">>)
  /\ descriptor.query.tokens # <<>>
  /\ parsed.status = "ok"
  /\ io.warnings = <<"protocol not supported">>

\* C13: without the offset key the offset is 0, without the size key the
\* size is 0 and is no error, and a size whose value is 0, written 0 or
\* 0x0, makes the open fail without a stream.
C13_DefaultsAndZeroSize ==
  io.op = "open" =>
    /\ ~HasKey(OffsetKey) => parsed.offset = 0
    /\ ~HasKey(SizeKey) =>
         parsed.size = 0 /\ parsed.error # "Invalid size value"
    /\ (~HasKey(SizeKey) /\ LiteralsValid /\ OpenReturned) =>
         parsed.status = "ok"
    /\ ExplicitZeroSize =>
         /\ parsed.status # "ok"
         /\ stream.kind = "none"
         /\ OpenReturned =>
              /\ parsed.status = "error"
              /\ io.status = "null"
              /\ io.error = "bad_value"

C13_Witness ==
  /\ OpenReturned
  /\ descriptor.scheme.names = "file"
  /\ descriptor.query.tokens = <<Size(<<"0", "x", "0">>, TRUE, 0)>>
  /\ io.caught = "Invalid size value"
  /\ stream.kind = "none"

\* C14: of several tokens with the key offset, or with the key size, the
\* leftmost gives the value: it is the offset or size the open uses, and a
\* leftmost size of 0 fails the open whatever the later ones are.
C14_FirstOccurrenceWins ==
  (OpenReturned /\ LiteralsValid) =>
    IF ExplicitZeroSize THEN parsed.status = "error"
    ELSE /\ parsed.status = "ok"
         /\ parsed.offset = Declared(OffsetKey)
         /\ parsed.size = Declared(SizeKey)

C14_Witness ==
  /\ OpenReturned
  /\ descriptor.query.tokens = <<Offset(<<"1">>, TRUE, 1),
                                 Offset(<<"3">>, TRUE, 3),
                                 Size(<<"2">>, TRUE, 2)>>
  /\ parsed.offset = 1
  /\ stream.kind = "memory"

\* C15: a value of offset or size that is not an unsigned integer literal
\* fails the open with the parse error, and no number is used for it.
C15_InvalidIntegerFails ==
  (OpenReturned /\ ~LiteralsValid) =>
    /\ parsed.status = "error"
    /\ io.caught = "Failed to parse integer."
    /\ stream.kind = "none"

\* C16: a memory URI whose path is a pid other than inferior->pid is
\* refused with the warning of another inferior, no memory of the target is
\* read and no stream is made; a stream in memory exists only for the pid
\* of the inferior.
C16_PidMismatchRefused ==
  /\ (OpenReturned /\ descriptor.scheme.names = "memory"
      /\ parsed.status = "ok" /\ descriptor.path.numeric
      /\ descriptor.path.number # target.pid) =>
       /\ io.status = "null"
       /\ stream.kind = "none"
       /\ io.error = "bad_value"
       /\ io.warnings = <<"code object is from another inferior">>
       /\ io.calls = <<>>
  /\ stream.kind = "memory" =>
       descriptor.path.numeric /\ descriptor.path.number = target.pid

C16_Witness ==
  /\ OpenReturned
  /\ descriptor.scheme.spelling = Bytes(<<"M", "e", "m", "o", "r", "y">>)
  /\ descriptor.path.number = 123
  /\ target.pid = 124
  /\ Declared(SizeKey) = 2
  /\ io.warnings = <<"code object is from another inferior">>

\* C17: the stream of memory://pid?offset=o&size=s opened for the inferior
\* of that pid has size () = s and holds the s bytes of the inferior's
\* memory at o .. o + s - 1 as they are at the open.
C17_SnapshotMatchesMemory ==
  (io.op = "open" /\ stream.kind = "memory" /\ LiteralsValid) =>
    /\ rocm_code_object_stream_memory_size(stream.m_objfile_image)
         = Declared(SizeKey)
    /\ \A j \in 1 .. Declared(SizeKey) :
         stream.m_objfile_image[j] = target.memory[Declared(OffsetKey) + j]

C17_Witness ==
  /\ io.op = "open"
  /\ stream.kind = "memory"
  /\ Declared(OffsetKey) = 1
  /\ Declared(SizeKey) = 2
  /\ stream.m_objfile_image = <<target.memory[2], target.memory[3]>>

\* C18: an open reads the memory of the target at most once; when that read
\* fails the open returns no stream after the one read, and a stream in
\* memory is made after exactly one read.
C18_OneReadNoRetry ==
  OpenReturned =>
    /\ io.calls \in {<<>>, <<"target_read_memory">>, <<"target_fileio_open">>}
    /\ io.warnings = <<"Failed to copy the code object from the inferior">> =>
         /\ io.calls = <<"target_read_memory">>
         /\ io.status = "null"
         /\ stream.kind = "none"
    /\ stream.kind = "memory" => io.calls = <<"target_read_memory">>

C18_Witness ==
  /\ OpenReturned
  /\ Declared(OffsetKey) + Declared(SizeKey) <= MemSize
  /\ Declared(SizeKey) > 0
  /\ io.warnings = <<"Failed to copy the code object from the inferior">>
  /\ io.calls = <<"target_read_memory">>
  /\ stream.kind = "none"

\* C19: while the stream in memory is open it does not change, whatever the
\* inferior writes to its memory; a read gives, for each position inside the
\* image, the byte the inferior's memory held there at the open, and calls
\* nothing on the target.
C19_SnapshotIsFrozen ==
  [][stream.kind = "memory" =>
       /\ stream' = stream
       /\ (io'.op = "pread" /\ io'.status = "read") =>
            /\ io'.calls = <<>>
            /\ \A j \in 1 .. io'.nbytes :
                 io'.offset + j <= Len(stream.m_objfile_image) =>
                   io'.bytes[j]
                     = InitialMemory[parsed.offset + io'.offset + j]]_vars

C19_Witness ==
  /\ io.op = "pread"
  /\ io.status = "read"
  /\ io.offset = 1
  /\ io.nbytes = 1
  /\ io.outside = 0
  /\ target.memory[parsed.offset + 2] = 0
  /\ io.bytes = <<InitialMemory[parsed.offset + 2]>>

\* C20: a read of size n at offset k of an image of length L copies
\* min (n, L - k) bytes when k <= L and 0 bytes when k > L, never fails and
\* copies nothing from outside the image.
C20_ReadClamps ==
  io.op = "pread" =>
    /\ io.status = "read"
    /\ io.nbytes = IF io.offset <= Len(stream.m_objfile_image)
                   THEN Min(io.size, Len(stream.m_objfile_image) - io.offset)
                   ELSE 0
    /\ io.outside = 0

-----------------------------------------------------------------------------
(* Properties of the stream over a file.                                   *)

\* A step of rocm_bfd_iovec_stat on the stream over a file.
FileStat ==
  stream.kind = "file" /\ io'.op = "stat" /\ target' = target

\* C21: size () of a stream over a file whose size is unspecified (0), with
\* offset o over a file of length N: N - o when o < N and the query of the
\* length succeeds, and a failure when o >= N or the query fails.
C21_UnspecifiedSizeResolves ==
  [][(FileStat /\ stream.m_size = 0) =>
       /\ io'.calls = <<"target_fileio_fstat">>
       /\ io'.status \in {"ok", "fail"}
       /\ io'.status = "ok" <=>
            (stream.m_offset < target.file_len /\ io'.error # "system_call")
       /\ io'.status = "ok" =>
            /\ io'.nbytes = target.file_len - stream.m_offset
            /\ io'.error = "none"
       /\ io'.status = "fail" =>
            /\ io'.nbytes = -1
            /\ io'.error \in {"system_call", "bad_value"}
            /\ stream' = stream]_vars

C21_Witness ==
  /\ io.op = "stat"
  /\ io.status = "ok"
  /\ stream.kind = "file"
  /\ parsed.size = 0
  /\ parsed.offset = 1
  /\ io.calls = <<"target_fileio_fstat">>
  /\ io.nbytes = target.file_len - 1
  /\ io.nbytes > 1

\* The size of the stream over a file has been worked out by size ().
Resolved == stream.kind = "file" /\ parsed.size = 0 /\ stream.m_size # 0

\* C22: the size of a stream over a file is worked out at most once: after
\* the first size () that succeeds, every later one returns the same value
\* and asks the target nothing, whatever the length of the file has become.
C22_SizeResolvedOnce ==
  [][/\ (FileStat /\ stream.m_size = 0 /\ io'.status = "ok") =>
          stream'.m_size = io'.nbytes /\ stream'.m_size # 0
     /\ (FileStat /\ Resolved) =>
          /\ io'.status = "ok"
          /\ io'.nbytes = stream.m_size
          /\ io'.calls = <<>>
     /\ Resolved => stream'.kind = "none" \/ stream' = stream]_vars

C22_Witness ==
  /\ io.op = "stat"
  /\ io.status = "ok"
  /\ io.calls = <<>>
  /\ Resolved
  /\ stream.m_offset < target.file_len
  /\ io.nbytes # target.file_len - stream.m_offset

\* C23 as stated: whatever size was declared, size () succeeds only if the
\* offset is below the length of the file, and fails otherwise.
C23_OffsetAlwaysValidated ==
  [][FileStat =>
       /\ io'.status = "ok" => stream.m_offset < target.file_len
       /\ stream.m_offset >= target.file_len =>
            io'.status = "fail" /\ io'.error \in {"system_call", "bad_value"}
    ]_vars

\* C23: size () holds the offset against the length of the file only while
\* the size is unknown (declared 0 and not worked out yet): it then succeeds
\* only if the offset is below the length, and fails with bad value when the
\* length is known and the offset is not below it. With a size that is
\* declared or worked out, size () returns it, asks the target nothing and
\* holds the offset against nothing.
C23_OffsetValidatedWhenUnknown ==
  [][FileStat =>
       /\ stream.m_size = 0 =>
            /\ io'.status = "ok" => stream.m_offset < target.file_len
            /\ stream.m_offset >= target.file_len =>
                 /\ io'.status = "fail"
                 /\ io'.error \in {"system_call", "bad_value"}
            /\ (io'.status = "fail" /\ io'.error = "bad_value") =>
                 stream.m_offset >= target.file_len
       /\ stream.m_size # 0 =>
            /\ io'.status = "ok"
            /\ io'.nbytes = stream.m_size
            /\ io'.calls = <<>>]_vars

C23_Witness ==
  /\ io.op = "stat"
  /\ io.status = "ok"
  /\ stream.kind = "file"
  /\ parsed.size > 0
  /\ io.nbytes = parsed.size
  /\ io.calls = <<>>
  /\ stream.m_offset >= target.file_len

\* The bytes the first j requests of the read delivered.
Delivered(j) ==
  LET sum[i \in 0 .. j] ==
        IF i = 0 THEN 0 ELSE sum[i - 1] + io.requests[i].bytes_read
  IN  sum[j]

\* A read of the stream over a file, in progress or over.
FileRead == io.op = "pread" /\ stream.kind = "file"

\* C24: a read of n bytes at offset k of a stream over a file asks the
\* target at position m_offset + k + the bytes read so far for the bytes
\* still missing, goes on until n bytes are read or a request returns 0
\* bytes, returns the bytes read in all, never more than n, and checks for
\* the user's interruption before every request.
C24_ReadLoop ==
  FileRead =>
    /\ \A j \in 1 .. Len(io.requests) :
         /\ io.requests[j].pos
              = stream.m_offset + io.offset + Delivered(j - 1)
         /\ io.requests[j].len = io.size - Delivered(j - 1)
         /\ io.requests[j].len > 0
         /\ j < Len(io.requests) => io.requests[j].bytes_read > 0
    /\ io.status \in {"reading", "read", "quit"}
    /\ io.status = "reading" =>
         /\ io.quits = Len(io.requests)
         /\ Delivered(Len(io.requests)) < io.size
         /\ \A j \in 1 .. Len(io.requests) : io.requests[j].bytes_read > 0
    /\ io.status = "quit" => io.quits = Len(io.requests) + 1
    /\ io.status = "read" =>
         /\ io.quits = Len(io.requests)
         /\ io.error = "none" =>
              /\ io.nbytes = Delivered(Len(io.requests))
              /\ io.nbytes <= io.size
              /\ \/ io.nbytes = io.size
                 \/ io.requests[Len(io.requests)].bytes_read = 0

C24_Witness ==
  /\ FileRead
  /\ io.status = "read"
  /\ stream.m_offset = 1
  /\ io.offset = 1
  /\ io.size = 3
  /\ Len(io.requests) = 3
  /\ io.requests[1].bytes_read = 1
  /\ io.requests[2].bytes_read = 1
  /\ io.requests[3].bytes_read = 0
  /\ io.requests[3].pos = 4
  /\ io.nbytes = 2

\* C25: when a request of a read of a stream over a file fails, the read
\* returns -1 and no count, also when requests before it delivered bytes;
\* a request that returns 0 bytes ends the read without a failure.
C25_ReadFailure ==
  FileRead =>
    /\ (\E j \in 1 .. Len(io.requests) : io.requests[j].bytes_read < 0) =>
         /\ io.status = "read"
         /\ io.nbytes = -1
         /\ io.error = "system_call"
    /\ (/\ io.requests # <<>>
        /\ io.requests[Len(io.requests)].bytes_read = 0) =>
         /\ io.status = "read"
         /\ io.nbytes = Delivered(Len(io.requests))
         /\ io.error = "none"
    /\ (io.status = "read" /\ io.nbytes < 0) =>
         io.requests[Len(io.requests)].bytes_read < 0

C25_Witness ==
  /\ FileRead
  /\ io.status = "read"
  /\ Len(io.requests) = 2
  /\ io.requests[1].bytes_read = 1
  /\ io.requests[2].bytes_read = -1
  /\ io.nbytes = -1

\* How many times target_fileio_close was called on fd.
Closes(fd) ==
  Cardinality({j \in 1 .. Len(target.closed) : target.closed[j] = fd})

\* C26: the file a stream opened on the target is closed exactly once, when
\* the stream is deleted at the close of the bfd, and no file is open after
\* that, also when a read of the stream was interrupted or failed.
C26_HandleReleasedOnce ==
  /\ \A fd \in Fds : Closes(fd) <= 1
  /\ stream.kind = "file" =>
       /\ target.open_fds = {stream.m_fd}
       /\ target.closed = <<>>
       /\ io.op # "close"
  /\ stream.kind # "file" => target.open_fds = {}
  /\ (io.op = "close" /\ io.calls # <<>>) =>
       /\ Len(target.closed) = 1
       /\ Closes(target.closed[1]) = 1
       /\ target.closed[1] # -1
  /\ target.closed # <<>> => io.op = "close"

C26_Witness ==
  /\ io.op = "close"
  /\ io.before = "quit"
  /\ io.calls = <<"target_fileio_close">>
  /\ target.closed = <<3>>
  /\ target.open_fds = {}
  /\ stream.kind = "none"

-----------------------------------------------------------------------------
(* Properties of the open of a solib.                                      *)

\* rocm_solib_bfd_open has run on the name.
BfdOpened == io.op = "bfd_open"

\* C27: the open of a name without "://" is the open of the host's solib
\* operations and nothing else: svr4_so_ops.bfd_open gets the name as it is,
\* its bfd or its error is the result, no URI is parsed, no stream is made,
\* nothing is opened or read on the target, and none of the checks of a
\* device image is made.
C27_PlainPathDelegates ==
  (BfdOpened /\ find(uri, Bytes(<<":", "/", "/">>), 0) = npos) =>
    /\ io.status = "host"
    /\ io.host \in {"bfd", "error"}
    /\ io.calls = <<"svr4_so_ops.bfd_open">>
    /\ io.filename = uri
    /\ parsed = NotParsed
    /\ stream = NoStream
    /\ ~io.made
    /\ io.image = NoImage
    /\ io.message = NoMessage
    /\ io.warnings = <<>>
    /\ target.open_fds = {} /\ target.closed = <<>>

C27_Witness ==
  /\ BfdOpened
  /\ uri = Bytes(<<"f", "i", "l", "e", ":", "/", "a", ".", "s", "o">>)
  /\ io.status = "host"
  /\ io.host = "error"
  /\ parsed = NotParsed

\* C28: the open of a URI returns a bfd only if a stream was made and bfd
\* found in it an object of the format, the OS ABI of HSA and a version of
\* the ABI that is V3 or above; in every other case it throws an error that
\* names the file, and no bfd and no stream is left.
C28_ImageOnlyIfAccepted ==
  (BfdOpened /\ find(uri, Bytes(<<":", "/", "/">>), 0) # npos) =>
    /\ io.status \in {"image", "error"}
    /\ io.status = "image" <=>
         /\ io.made
         /\ io.image.format
         /\ io.image.osabi = ELFOSABI_AMDGPU_HSA
         /\ io.image.osabiversion >= ELFABIVERSION_AMDGPU_HSA_V3
    /\ io.status = "image" => stream.kind \in {"file", "memory"}
    /\ io.status = "error" =>
         /\ io.message.text # ""
         /\ io.message.name = uri
         /\ stream = NoStream
         /\ target.open_fds = {}

\* C29: for a URI of the file protocol that parses, the file of the target
\* whose name is the decoded path is opened, read-only; when that fails the
\* open fails with a system call error and leaves no stream and no open
\* file; when it succeeds the stream holds the descriptor, the offset and
\* the size of the URI.
C29_FileOpenedAtLocator ==
  (io.op = "open" /\ descriptor.scheme.names = "file"
   /\ parsed.status = "ok") =>
    /\ io.calls = <<"target_fileio_open">>
    /\ io.filename = descriptor.path.locator
    /\ io.flags = "FILEIO_O_RDONLY"
    /\ io.status = "null" =>
         /\ io.error = "system_call"
         /\ stream = NoStream
         /\ target.open_fds = {}
    /\ io.status = "stream" =>
         /\ stream.kind = "file"
         /\ stream.m_fd \in target.open_fds
         /\ stream.m_offset = parsed.offset
         /\ stream.m_size = parsed.size
         /\ LiteralsValid =>
              /\ stream.m_offset = Declared(OffsetKey)
              /\ stream.m_size = Declared(SizeKey)

-----------------------------------------------------------------------------
(* Properties of the refresh of the registry.                              *)

\* The address and the URI the runtime gave for each of the handles hs.
ReportedVals(hs) ==
  [i \in 1 .. Len(hs) |->
     [so_name |-> UriOf(hs[i]), l_addr |-> LoadAddrOf(hs[i])]]

\* The address and the name of each entry of the registry of inf.
RegAddrAndName(inf) ==
  [i \in 1 .. Len(RegVals(inf)) |->
     [so_name |-> RegVals(inf)[i].so_name, l_addr |-> RegVals(inf)[i].l_addr]]

\* C30: after a refresh whose code object list query succeeded, the registry
\* holds one entry for each code object of the list whose load address and
\* URI queries both succeeded, in the order of the list, with the load
\* address and the URI of that code object, and nothing else; a code object
\* whose query failed is left out and the ones after it are not.
C30_RegistryIsTheReport ==
  (ev.op \in Refreshes /\ ev.status = "ok") =>
    RegAddrAndName(ev.inf) = ReportedVals(ev.answered)

\* C31: a solib event handled right after a refresh of the same inferior,
\* the runtime attached and answering as it did for that refresh (the same
\* status, the same number of code objects, the same handles answered for in
\* the same order), leaves the registry with the entries it had: the same
\* names, unique names and load addresses in the same order.
C31_RefreshIdempotent ==
  [][(/\ ev'.op = "handle_event"
      /\ ev.op \in Refreshes
      /\ ev'.inf = ev.inf
      /\ process_id[ev.inf]
      /\ ev'.status = ev.status
      /\ ev'.count = ev.count
      /\ ev'.answered = ev.answered)
     => RegVals(ev.inf)' = RegVals(ev.inf)]_vars

C31_Witness ==
  /\ ev.op = "handle_event"
  /\ process_id[ev.inf]
  /\ ev.status = "ok"
  /\ Len(ev.answered) = MaxObjs
  /\ ev.pre = MaxObjs
  /\ RegVals(ev.inf) = DeviceVals(ev.answered)

\* C32: an inferior with no amd-dbgapi process attached has an empty
\* registry, in every state; in particular after a solib event handled once
\* the runtime has detached.
C32_InactiveRegistryEmpty ==
  \A i \in alive : ~process_id[i] => RegVals(i) = <<>>

Max(a, b) == IF a > b THEN a ELSE b

\* A read of a stream over a file that returned a count, the size of the
\* image being known (declared in the URI or resolved by size ()).
SizedRead ==
  /\ FileRead
  /\ io.status = "read"
  /\ io.error = "none"
  /\ stream.m_size # 0

\* C33 as claimed: a read of n bytes at offset k of a stream over a file
\* whose image has the size S returns at most max (0, S - k) bytes, also
\* when the file goes on behind m_offset + S.
C33_ReadWithinImage ==
  SizedRead => io.nbytes <= Max(0, stream.m_size - io.offset)

\* C33 as the code has it: no request of a read delivers bytes from behind
\* the end of the file, and when the file does not go on behind
\* m_offset + S as a request of a read of n bytes at offset k delivers
\* bytes, the bytes read so far are at most max (0, S - k); a read that
\* returns a count returns the bytes read at its last such request.
C33_ReadWithinFile ==
  [][(FileRead' /\ Len(io'.requests) = Len(io.requests) + 1) =>
       LET r == io'.requests[Len(io'.requests)]
       IN  /\ r.bytes_read <= Max(0, target.file_len - r.pos)
           /\ (/\ r.bytes_read > 0
               /\ stream.m_size # 0
               /\ target.file_len <= stream.m_offset + stream.m_size)
              => /\ io'.nbytes <= Max(0, stream.m_size - io.offset)
                 /\ io'.nbytes = Delivered(Len(io.requests)) + r.bytes_read
           /\ (r.bytes_read = 0 /\ io.error = "none")
              => io'.nbytes = io.nbytes]_vars

C33_Witness ==
  /\ SizedRead
  /\ parsed.size = 2
  /\ stream.m_offset = 1
  /\ target.file_len = 3
  /\ io.offset = 1
  /\ io.size = 3
  /\ Len(io.requests) = 2
  /\ io.requests[1].bytes_read = 1
  /\ io.requests[2].bytes_read = 0
  /\ io.nbytes = 1

\* C34: the create-inferior hook, the inferior_created observer and the
\* solib event handler work on the registry of the inferior they run for,
\* the current one: the registry of every other inferior keeps its head, its
\* nodes and their values, and the runtime is asked for the code object list
\* only when the amd-dbgapi process of that inferior is attached, whatever
\* is attached to the others.
C34_OnlyOwnRegistry ==
  [][ev'.op \in Handlers =>
       /\ ev'.inf = current_inferior
       /\ \A i \in Inferiors \ {ev'.inf} :
            /\ info'[i] = info[i]
            /\ RegNodes(i)' = RegNodes(i)
            /\ RegVals(i)' = RegVals(i)
       /\ Positions(ev'.log, "code_object_list") # {} => process_id[ev'.inf]
       /\ ev'.status # "none" => process_id[ev'.inf]]_vars

C34_Witness ==
  /\ ev.op \in Refreshes
  /\ ev.status = "ok"
  /\ Len(RegVals(ev.inf)) = 1
  /\ \E i \in alive \ {ev.inf} :
       /\ Len(RegVals(i)) = MaxObjs
       /\ process_id[i]

\* C35: a read of n bytes of a stream over a file ends, whatever the target
\* answers: it makes at most n requests, none when n is 0, it goes on only
\* while bytes are missing and every request so far delivered at least one,
\* and a read in progress is over at last, with n bytes read, by a request
\* that returned 0 bytes, by a request that failed or by QUIT.
C35_ReadTerminates ==
  /\ [](FileRead =>
         /\ Len(io.requests) <= io.size
         /\ io.status = "reading" =>
              /\ io.left = io.size - Delivered(Len(io.requests))
              /\ io.left > 0
              /\ Len(io.requests) <= Delivered(Len(io.requests))
         /\ io.status \in {"read", "quit"} =>
              \/ io.status = "quit"
              \/ io.error = "none" /\ io.nbytes = io.size
              \/ /\ io.requests # <<>>
                 /\ io.requests[Len(io.requests)].bytes_read <= 0)
  /\ (FileRead /\ io.status = "reading")
       ~> (FileRead /\ io.status \in {"read", "quit"})

C35_Witness ==
  /\ FileRead
  /\ io.status = "read"
  /\ io.size = MaxRead
  /\ Len(io.requests) = MaxRead
  /\ \A j \in 1 .. MaxRead : io.requests[j].bytes_read = 1
  /\ io.nbytes = MaxRead

\* The errors try_strtoulst and the check of the size raise.
ParseErrors == {"Failed to parse integer.", "Invalid size value"}

\* C36: offset and size are parsed and checked before the protocol is
\* looked at: an open that fails by an integer that does not parse or by a
\* size of 0 has called nothing on the target, neither target_fileio_open
\* nor target_read_memory, has made no stream, has left no file open and
\* has not warned of the protocol, whatever the scheme is; and a failure of
\* the parse of offset or size is always the error the open ends with.
C36_ParsedBeforeDispatch ==
  OpenReturned =>
    /\ io.caught \in ParseErrors =>
         /\ io.status = "null"
         /\ io.error = "bad_value"
         /\ io.calls = <<>>
         /\ io.warnings = <<>>
         /\ stream = NoStream
         /\ target.open_fds = {}
         /\ target.memory = InitialMemory
    /\ parsed.status = "error" =>
         /\ parsed.error \in ParseErrors
         /\ io.caught = parsed.error
    /\ io.caught = "Invalid size value" <=> parsed.error = "Invalid size value"

C36_Witness ==
  /\ OpenReturned
  /\ descriptor.scheme.names = "memory"
  /\ descriptor.path.numeric
  /\ descriptor.path.number = target.pid
  /\ ~LiteralsValid
  /\ parsed.status = "error"
  /\ io.caught = "Failed to parse integer."
  /\ io.calls = <<>>

\* A URI of the memory protocol with no size, for the pid of the inferior.
SizelessMemory ==
  /\ descriptor.scheme.names = "memory"
  /\ descriptor.path.numeric
  /\ descriptor.path.number = target.pid
  /\ ~HasKey(SizeKey)
  /\ LiteralsValid

\* C37: a URI of the memory protocol with no size, opened for the inferior
\* whose pid it names, gives a stream in memory with an image of no bytes:
\* the open does not fail, size () is 0, and every read returns 0 bytes and
\* copies nothing, at any offset.
C37_EmptySnapshot ==
  SizelessMemory =>
    /\ OpenReturned =>
         /\ io.status = "stream"
         /\ stream.kind = "memory"
         /\ io.warnings = <<>>
    /\ stream.kind = "memory" =>
         /\ stream.m_objfile_image = <<>>
         /\ io.op = "stat" => io.status = "ok" /\ io.nbytes = 0
         /\ io.op = "pread" =>
              /\ io.status = "read"
              /\ io.nbytes = 0
              /\ io.outside = 0

====
